---------------------------- MODULE Spec2Model ----------------------------
(***************************************************************************)
(* A model of depsync (cryptellation/conductor): the dependency graph      *)
(* builder, the version detector, the inconsistency checker and the        *)
(* update/merge orchestration of pkg/depsync.                              *)
(*                                                                         *)
(* Strings whose content the code inspects (tags, versions, branch names)  *)
(* are sequences of one-character strings.  Module paths are kept as       *)
(* strings, with PathChars giving their characters where the code reads    *)
(* them.                                                                   *)
(***************************************************************************)
EXTENDS Integers, Sequences, FiniteSets, TLC

VARIABLES
    \* ---- pkg/depsync: Run / fixModules ----
    deleteConflictedPRs,  \* config.DeleteConflictedPRs
    mismatches,           \* the map returned by checker.Check: <<service, dep>> -> Mismatch
    todoServices,         \* keys of the outer range loop not visited yet
    todoDeps,             \* keys of the inner range loop not visited yet
    service,              \* loop variable of the outer loop
    dep,                  \* loop variable of the inner loop
    pc,                   \* the collaborator call the orchestrator is about to make
    branchName,           \* local of updateDependency / parameter of manageMergeRequest
    dir,                  \* local of updateDependency: the workspace CloneRepo returned
    updatedDir,           \* local of updateDependency: the workspace UpdateGoDependency returned
    prNumber,             \* local of manageMergeRequest
    calls,                \* every collaborator call made so far, in order, with its result
    runResult,            \* what Run returned ("" while it is running)
    \* ---- pkg/depgraph, pkg/repo: the graph pipeline ----
    modules,              \* BuildGraph's input: module path -> go.mod content
    graph,                \* map[string]*Service: module path -> address of its node
    heap,                 \* address -> Service value
    gpc,                  \* the stage the graph pipeline is at
    graphErr,             \* the error a stage returned ("" when none)
    todoDetect,           \* services DetectAndSetCurrentVersions has not visited yet
    lastService,          \* the service of the last ListTags call
    lastTags,             \* the tags the last ListTags call returned
    \* ---- pkg/adapters/github: CheckMergeConflicts ----
    mergeParams,          \* CheckMergeConflictsParams: RepoURL, PRNumber
    attempt,              \* loop variable of checkMergeConflictsWithRetry
    polls,                \* what each PullRequests.Get returned, in order
    sleeps,               \* the delays of the time.Sleep calls, in seconds, in order
    mpc,                  \* where CheckMergeConflicts is
    mresult,              \* what CheckMergeConflicts returned
    \* ---- the context and the forge ----
    cancelled,            \* ctx is cancelled
    cancelledAt,          \* the step that was in progress when ctx was cancelled
    remoteBranches,       \* <<repository, branch name>> of the update branches on the remote
    pulls,                \* <<repository, head branch>> -> the pull request opened from it
    deferred,             \* the edges whose pull request the previous run closed as conflicted
    \* ---- two runs racing through updateDependency ----
    rpc,                  \* run -> the call it is about to make
    observed,             \* run -> what CheckBranchExists told it
    commitOf,             \* run -> the commit it made
    remoteRef,            \* the commit the update branch points to on the remote
    pushes,               \* every CommitAndPush made so far: run, branch, result
    \* ---- pkg/depsync: the stages of Run ----
    repositories,         \* config.Repositories
    stages,               \* the stage calls Run made so far, in order, with their results
    errArgs,              \* the operands of the error Check returned
    \* ---- pkg/depsync: generateBranchName on its own ----
    fnArgs,             \* the arguments of a function that is called on its own
    fnResults           \* what each call returned, in order

orchVars == <<deleteConflictedPRs, mismatches, todoServices, todoDeps, service, dep,
              pc, branchName, dir, updatedDir, prNumber, calls, runResult>>

graphVars == <<modules, graph, heap, gpc, graphErr, todoDetect, lastService, lastTags>>

pollVars == <<mergeParams, attempt, polls, sleeps, mpc, mresult>>

envVars == <<cancelled, cancelledAt, remoteBranches, pulls, deferred>>

raceVars == <<rpc, observed, commitOf, remoteRef, pushes>>

runVars == <<repositories, stages, errArgs>>

fnVars == <<fnArgs, fnResults>>

vars == <<orchVars, graphVars, pollVars, envVars, raceVars, runVars, fnVars>>

\* the variables of CheckMergeConflicts while another part is looked at
PollIdle ==
    /\ mergeParams = <<>>
    /\ attempt = 0
    /\ polls = <<>>
    /\ sleeps = <<>>
    /\ mpc = "idle"
    /\ mresult = <<>>

\* no cancellation, no forge
EnvIdle ==
    /\ cancelled = FALSE
    /\ cancelledAt = ""
    /\ remoteBranches = {}
    /\ pulls = <<>>
    /\ deferred = {}

\* no racing runs
RaceIdle ==
    /\ rpc = <<>>
    /\ observed = <<>>
    /\ commitOf = <<>>
    /\ remoteRef = <<>>
    /\ pushes = <<>>

\* Run has not been entered
RunIdle ==
    /\ repositories = <<>>
    /\ stages = <<>>
    /\ errArgs = <<>>

\* generateBranchName is not looked at
FnIdle ==
    /\ fnArgs = <<>>
    /\ fnResults = <<>>

OthersIdle == PollIdle /\ EnvIdle /\ RaceIdle /\ RunIdle /\ FnIdle

---------------------------------------------------------------------------
(* Bounds *)

\* the longest module path generateBranchName is called with
MaxPathLen == 5

\* how many mismatches one run is given at most
MaxMismatches == 2

\* how many require lines a go.mod has at most
MaxRequires == 1

\* how many tags ListTags returns at most
MaxTags == 2

---------------------------------------------------------------------------
(* Strings *)

pA == "github.com/t/a"
pB == "github.com/t/b"
pC == "github.com/t/c"

\* a module that is not hosted on github.com
pX == "gitlab.com/t/x"

ModulePaths == {pA, pB, pC}

\* the characters of a module path
PathChars(p) ==
    CASE p = pA -> <<"g","i","t","h","u","b",".","c","o","m","/","t","/","a">>
      [] p = pB -> <<"g","i","t","h","u","b",".","c","o","m","/","t","/","b">>
      [] p = pC -> <<"g","i","t","h","u","b",".","c","o","m","/","t","/","c">>
      [] p = pX -> <<"g","i","t","l","a","b",".","c","o","m","/","t","/","x">>

v1_0_0  == <<"v","1",".","0",".","0">>
v1_2_0  == <<"v","1",".","2",".","0">>
v1_10_0 == <<"v","1",".","1","0",".","0">>

---------------------------------------------------------------------------
(* pkg/depsync/depsync.go: branch names *)

invalidChars_Mut == {"/", "\\", ":", "*", "?", "\"", "<", ">", "|", " "}

invalidChars == {"/", ".", "\\", ":", "*", "?", "\"", "<", ">", "|", " "}

\* strings.ReplaceAll(s, c, "-") for every c of invalidChars
ReplaceInvalid(s) == [i \in 1..Len(s) |-> IF s[i] \in invalidChars THEN "-" ELSE s[i]]

\* strings.ReplaceAll(s, "--", "-"): one pass, left to right, non-overlapping
RECURSIVE ReplaceDoubleHyphen(_)
ReplaceDoubleHyphen(s) ==
    IF Len(s) < 2 THEN s
    ELSE IF s[1] = "-" /\ s[2] = "-"
         THEN <<"-">> \o ReplaceDoubleHyphen(SubSeq(s, 3, Len(s)))
         ELSE <<s[1]>> \o ReplaceDoubleHyphen(Tail(s))

\* strings.Trim(s, "-")
RECURSIVE TrimHyphens(_)
TrimHyphens(s) ==
    IF s = <<>> THEN s
    ELSE IF s[1] = "-" THEN TrimHyphens(Tail(s))
    ELSE IF s[Len(s)] = "-" THEN TrimHyphens(SubSeq(s, 1, Len(s) - 1))
    ELSE s

sanitizeBranchName(name) == TrimHyphens(ReplaceDoubleHyphen(ReplaceInvalid(name)))

\* fmt.Sprintf("depsync/update-%s-%s", sanitizeBranchName(modulePath), targetVersion)
\* for a module path given by its characters
generateBranchNameChars(chars, targetVersion) ==
    <<"depsync/update-">> \o sanitizeBranchName(chars) \o <<"-">> \o targetVersion

generateBranchName(modulePath, targetVersion) ==
    generateBranchNameChars(PathChars(modulePath), targetVersion)

\* repoURL := "https://" + service
repoURL(svc) == <<"https://", svc>>

---------------------------------------------------------------------------
(* pkg/depsync/depsync.go: the orchestrator *)

NoBranch == <<>>
NoPR == -1

\* the number of the open pull request of the update branch of an edge, when the
\* forge has one, and the number a pull request created for it is given
OpenPRNumber(svc, d) ==
    CASE svc = pA /\ d = pB -> 11
      [] svc = pA /\ d = pC -> 12
      [] svc = pB /\ d = pC -> 13
NewPRNumber(svc, d) == OpenPRNumber(svc, d) + 10

CheckStatuses == {"running", "passed", "failed"}

\* the (service, dependency) edges a run may be told are mismatched
OrchEdges == {<<pA, pB>>, <<pA, pC>>, <<pB, pC>>}

LatestOf(d) == IF d = pC THEN v1_10_0 ELSE v1_2_0

MismatchMaps ==
    {[e \in M |-> [Actual |-> v1_0_0, Latest |-> LatestOf(e[2])]] :
        M \in {S \in SUBSET OrchEdges : Cardinality(S) <= MaxMismatches}}

ServicesOf(m) == {e[1] : e \in DOMAIN m}
DepsOf(m, svc) == {e[2] : e \in {x \in DOMAIN m : x[1] = svc}}

mismatch == mismatches[<<service, dep>>]

\* no workspace: the zero value of *dagger.Directory
NoDir == <<>>

\* the directory CloneRepo returns: one per call, named by the position of the
\* call in the run
FreshDir(n) == [clone |-> n, updated |-> FALSE]

\* the directory UpdateGoDependency returns: the one it was given, with the bump
Updated(d) == [d EXCEPT !.updated = TRUE]

\* the Dir argument of the calls that take one
DirArg(op) ==
    IF op \in {"CheckBranchExists", "UpdateGoDependency"} THEN dir
    ELSE IF op = "CommitAndPush" THEN updatedDir
    ELSE NoDir

\* the calls whose parameters hold ModulePath and TargetVersion
NamesUpdate == {"UpdateGoDependency", "CommitAndPush", "CreateMergeRequest", "MergeMergeRequest"}

NoArg == <<>>

\* ModulePath: dep
ModulePathArg(op) == IF op \in NamesUpdate THEN dep ELSE NoArg

\* TargetVersion: mismatch.Latest
TargetVersionArg(op) == IF op \in NamesUpdate THEN mismatch.Latest ELSE NoArg

\* mutant: the repository is derived from the dependency
RepoArg_Mut == repoURL(dep)

\* repoURL := "https://" + service, handed to every call of the pipeline
RepoArg == repoURL(service)

Call(op, br, pr, res) ==
    [op |-> op, service |-> service, dep |-> dep, repo |-> RepoArg, dir |-> DirArg(op),
     modulePath |-> ModulePathArg(op), targetVersion |-> TargetVersionArg(op),
     branch |-> br, pr |-> pr, res |-> res]

OrchInit ==
    /\ deleteConflictedPRs \in BOOLEAN
    /\ mismatches \in MismatchMaps
    /\ todoServices = {}
    /\ todoDeps = {}
    /\ service = ""
    /\ dep = ""
    /\ pc = "Run"
    /\ branchName = NoBranch
    /\ dir = NoDir
    /\ updatedDir = NoDir
    /\ prNumber = NoPR
    /\ calls = <<>>
    /\ runResult = ""

\* Run, after checker.Check: nothing to do without mismatches, else fixModules
Run ==
    /\ pc = "Run"
    /\ IF DOMAIN mismatches = {}
       THEN /\ pc' = "done"
            /\ runResult' = "nil"
            /\ UNCHANGED todoServices
       ELSE /\ pc' = "fixModules"
            /\ runResult' = ""
            /\ todoServices' = ServicesOf(mismatches)
    /\ UNCHANGED <<deleteConflictedPRs, mismatches, todoDeps, service, dep,
                   branchName, dir, updatedDir, prNumber, calls>>

ReturnError_Retry ==
    /\ pc' = pc
    /\ UNCHANGED <<runResult, todoServices, todoDeps, service, dep>>

\* mutant: the error is dropped and the loop goes on
ReturnError_Mut ==
    /\ pc' = "fixModules"
    /\ UNCHANGED <<runResult, todoServices, todoDeps, service, dep>>

\* a fatal error of updateDependency or manageMergeRequest: fixModules returns it
\* and Run wraps it
ReturnError ==
    /\ pc' = "done"
    /\ runResult' = "failed to fix modules"
    /\ UNCHANGED <<todoServices, todoDeps, service, dep>>

\* mutant: manageMergeRequest goes on to create a pull request
NextDependency_Mut ==
    /\ pc' = "CreateMergeRequest"
    /\ UNCHANGED <<runResult, todoServices, todoDeps, service, dep>>

\* manageMergeRequest returned nil: the inner loop goes on
NextDependency ==
    /\ pc' = "fixModules"
    /\ UNCHANGED <<runResult, todoServices, todoDeps, service, dep>>

\* mutant: the failure is returned like a fatal one
SwallowError_Mut ==
    /\ pc' = "done"
    /\ runResult' = "failed to fix modules"
    /\ UNCHANGED <<todoServices, todoDeps, service, dep>>

\* checkAndMergeMR logs a failure of the status query, of the merge or of the
\* branch deletion after the merge, and returns: the run goes on
SwallowError == NextDependency

PipelineStart_Mut == IF dir = NoDir THEN "CloneRepo" ELSE "CheckBranchExists"

\* updateDependency begins with dagger.CloneRepo
PipelineStart == "CloneRepo"

\* the two range loops of fixModules; Go ranges over a map in any order
fixModules ==
    /\ pc = "fixModules"
    /\ \/ /\ todoDeps # {}
          /\ \E d \in todoDeps :
                /\ dep' = d
                /\ todoDeps' = todoDeps \ {d}
          /\ pc' = PipelineStart
          /\ UNCHANGED <<service, todoServices, runResult>>
       \/ /\ todoDeps = {}
          /\ todoServices # {}
          /\ \E s \in todoServices :
                /\ service' = s
                /\ todoServices' = todoServices \ {s}
                /\ \E d \in DepsOf(mismatches, s) :
                      /\ dep' = d
                      /\ todoDeps' = DepsOf(mismatches, s) \ {d}
          /\ pc' = PipelineStart
          /\ UNCHANGED runResult
       \/ /\ todoDeps = {}
          /\ todoServices = {}
          /\ pc' = "done"
          /\ runResult' = "nil"
          /\ UNCHANGED <<service, dep, todoServices, todoDeps>>
    /\ branchName' = NoBranch
    /\ dir' = NoDir
    /\ updatedDir' = NoDir
    /\ prNumber' = NoPR
    /\ UNCHANGED <<deleteConflictedPRs, mismatches, calls>>

\* updateDependency: dagger.CloneRepo, then the branch name is generated
CloneRepo ==
    /\ pc = "CloneRepo"
    /\ \E ok \in BOOLEAN :
          /\ calls' = Append(calls, Call("CloneRepo", NoBranch, NoPR, IF ok THEN "ok" ELSE "err"))
          /\ IF ok
             THEN /\ dir' = FreshDir(Len(calls) + 1)
                  /\ branchName' = generateBranchName(dep, mismatch.Latest)
                  /\ pc' = "CheckBranchExists"
                  /\ UNCHANGED <<runResult, todoServices, todoDeps, service, dep>>
             ELSE /\ ReturnError
                  /\ UNCHANGED <<branchName, dir>>
    /\ UNCHANGED <<deleteConflictedPRs, mismatches, updatedDir, prNumber>>

\* mutant: the result of the branch check is ignored
AfterCheckBranchExists_Mut(branchExists) == "UpdateGoDependency"

\* where updateDependency goes after the branch check
AfterCheckBranchExists(branchExists) ==
    IF branchExists THEN "CheckPullRequestExists" ELSE "UpdateGoDependency"

\* updateDependency: dagger.CheckBranchExists
CheckBranchExists ==
    /\ pc = "CheckBranchExists"
    /\ \E res \in {"err", "true", "false"} :
          /\ calls' = Append(calls, Call("CheckBranchExists", branchName, NoPR, res))
          /\ IF res = "err"
             THEN ReturnError
             ELSE /\ pc' = AfterCheckBranchExists(res = "true")
                  /\ UNCHANGED <<runResult, todoServices, todoDeps, service, dep>>
    /\ UNCHANGED <<deleteConflictedPRs, mismatches, branchName, dir, updatedDir, prNumber>>

\* updateDependency: dagger.UpdateGoDependency
UpdateGoDependency ==
    /\ pc = "UpdateGoDependency"
    /\ \E ok \in BOOLEAN :
          /\ calls' = Append(calls, Call("UpdateGoDependency", NoBranch, NoPR, IF ok THEN "ok" ELSE "err"))
          /\ IF ok
             THEN /\ updatedDir' = Updated(dir)
                  /\ pc' = "CommitAndPush"
                  /\ UNCHANGED <<runResult, todoServices, todoDeps, service, dep>>
             ELSE /\ ReturnError
                  /\ UNCHANGED updatedDir
    /\ UNCHANGED <<deleteConflictedPRs, mismatches, branchName, dir, prNumber>>

\* updateDependency: dagger.CommitAndPush
CommitAndPush ==
    /\ pc = "CommitAndPush"
    /\ \E ok \in BOOLEAN :
          /\ calls' = Append(calls, Call("CommitAndPush", branchName, NoPR, IF ok THEN "ok" ELSE "err"))
          /\ IF ok
             THEN /\ pc' = "CheckPullRequestExists"
                  /\ UNCHANGED <<runResult, todoServices, todoDeps, service, dep>>
             ELSE ReturnError
    /\ UNCHANGED <<deleteConflictedPRs, mismatches, branchName, dir, updatedDir, prNumber>>

\* mutant: the conflict check is made whatever the configuration says
AfterCheckPullRequestExists_Mut(n) ==
    IF n = -1 THEN "CreateMergeRequest" ELSE "CheckMergeConflicts"

\* mutant: a pull request is created whether or not one was found
AfterCheckPullRequestExists_Create(n) == "CreateMergeRequest"

\* where manageMergeRequest goes once it knows the pull request number n:
\* creation when there is none, else handlePRConflicts, which calls
\* CheckMergeConflicts only when the feature is enabled
AfterCheckPullRequestExists(n) ==
    IF n = -1 THEN "CreateMergeRequest"
    ELSE IF ~deleteConflictedPRs THEN "GetPullRequestChecks"
    ELSE "CheckMergeConflicts"

\* manageMergeRequest / checkExistingPullRequest: client.CheckPullRequestExists
CheckPullRequestExists ==
    /\ pc = "CheckPullRequestExists"
    /\ \/ /\ calls' = Append(calls, Call("CheckPullRequestExists", branchName, NoPR, "err"))
          /\ ReturnError
          /\ UNCHANGED prNumber
       \/ \E n \in {OpenPRNumber(service, dep), -1} :
             /\ calls' = Append(calls, Call("CheckPullRequestExists", branchName, n, "ok"))
             /\ prNumber' = n
             /\ pc' = AfterCheckPullRequestExists(n)
             /\ UNCHANGED <<runResult, todoServices, todoDeps, service, dep>>
    /\ UNCHANGED <<deleteConflictedPRs, mismatches, branchName, dir, updatedDir>>

\* where manageMergeRequest goes after a successful creation
AfterCreateMergeRequest == "fixModules"

\* manageMergeRequest / createMergeRequest: client.CreateMergeRequest; the number
\* of the new pull request is dropped and manageMergeRequest returns
CreateMergeRequest ==
    /\ pc = "CreateMergeRequest"
    /\ \/ /\ calls' = Append(calls, Call("CreateMergeRequest", branchName, NoPR, "err"))
          /\ ReturnError
       \/ \E n \in {NewPRNumber(service, dep)} :
             /\ calls' = Append(calls, Call("CreateMergeRequest", branchName, n, "ok"))
             /\ pc' = AfterCreateMergeRequest
             /\ UNCHANGED <<runResult, todoServices, todoDeps, service, dep>>
    /\ UNCHANGED <<deleteConflictedPRs, mismatches, branchName, dir, updatedDir, prNumber>>

\* mutant: a reported conflict is ignored
AfterCheckMergeConflicts_Mut(hasConflicts) == "GetPullRequestChecks"

\* where handlePRConflicts goes after the conflict check
AfterCheckMergeConflicts(hasConflicts) ==
    IF hasConflicts THEN "DeletePullRequest" ELSE "GetPullRequestChecks"

\* handlePRConflicts: client.CheckMergeConflicts
CheckMergeConflicts ==
    /\ pc = "CheckMergeConflicts"
    /\ \E res \in {"err", "true", "false"} :
          /\ calls' = Append(calls, Call("CheckMergeConflicts", NoBranch, prNumber, res))
          /\ IF res = "err"
             THEN ReturnError
             ELSE /\ pc' = AfterCheckMergeConflicts(res = "true")
                  /\ UNCHANGED <<runResult, todoServices, todoDeps, service, dep>>
    /\ UNCHANGED <<deleteConflictedPRs, mismatches, branchName, dir, updatedDir, prNumber>>

\* deleteConflictedPR: client.DeletePullRequest
DeletePullRequest ==
    /\ pc = "DeletePullRequest"
    /\ \E ok \in BOOLEAN :
          /\ calls' = Append(calls, Call("DeletePullRequest", NoBranch, prNumber, IF ok THEN "ok" ELSE "err"))
          /\ IF ok
             THEN /\ pc' = "DeleteBranchOfConflictedPR"
                  /\ UNCHANGED <<runResult, todoServices, todoDeps, service, dep>>
             ELSE ReturnError
    /\ UNCHANGED <<deleteConflictedPRs, mismatches, branchName, dir, updatedDir, prNumber>>

\* mutant: a failing branch deletion of the conflict path is logged only
DeleteBranchOfConflictedPR_Mut ==
    /\ pc = "DeleteBranchOfConflictedPR"
    /\ \E ok \in BOOLEAN :
          /\ calls' = Append(calls, Call("DeleteBranch", branchName, NoPR, IF ok THEN "ok" ELSE "err"))
          /\ NextDependency
    /\ UNCHANGED <<deleteConflictedPRs, mismatches, branchName, dir, updatedDir, prNumber>>

\* deleteConflictedPR: client.DeleteBranch; on success handlePRConflicts returns
\* deleted = true and manageMergeRequest returns nil
DeleteBranchOfConflictedPR ==
    /\ pc = "DeleteBranchOfConflictedPR"
    /\ \E ok \in BOOLEAN :
          /\ calls' = Append(calls, Call("DeleteBranch", branchName, NoPR, IF ok THEN "ok" ELSE "err"))
          /\ IF ok THEN NextDependency ELSE ReturnError
    /\ UNCHANGED <<deleteConflictedPRs, mismatches, branchName, dir, updatedDir, prNumber>>

\* mutant: running checks are merged like passed ones
AfterGetPullRequestChecks_Mut(status) ==
    IF status \in {"passed", "running"} THEN "MergeMergeRequest" ELSE "fixModules"

\* where checkAndMergeMR goes on a check status
AfterGetPullRequestChecks(status) ==
    IF status = "passed" THEN "MergeMergeRequest" ELSE "fixModules"

\* checkAndMergeMR: client.GetPullRequestChecks; an error is logged and dropped
GetPullRequestChecks ==
    /\ pc = "GetPullRequestChecks"
    /\ \/ /\ calls' = Append(calls, Call("GetPullRequestChecks", NoBranch, prNumber, "err"))
          /\ SwallowError
       \/ \E status \in CheckStatuses :
             /\ calls' = Append(calls, Call("GetPullRequestChecks", NoBranch, prNumber, status))
             /\ pc' = AfterGetPullRequestChecks(status)
             /\ UNCHANGED <<runResult, todoServices, todoDeps, service, dep>>
    /\ UNCHANGED <<deleteConflictedPRs, mismatches, branchName, dir, updatedDir, prNumber>>

\* mutant: the branch is deleted whether or not the merge succeeded
MergeMergeRequest_Mut ==
    /\ pc = "MergeMergeRequest"
    /\ \E ok \in BOOLEAN :
          /\ calls' = Append(calls, Call("MergeMergeRequest", NoBranch, prNumber, IF ok THEN "ok" ELSE "err"))
          /\ pc' = "DeleteBranchAfterMerge"
          /\ UNCHANGED <<runResult, todoServices, todoDeps, service, dep>>
    /\ UNCHANGED <<deleteConflictedPRs, mismatches, branchName, dir, updatedDir, prNumber>>

\* mergeMergeRequest: client.MergeMergeRequest; checkAndMergeMR logs an error
\* and returns
MergeMergeRequest ==
    /\ pc = "MergeMergeRequest"
    /\ \E ok \in BOOLEAN :
          /\ calls' = Append(calls, Call("MergeMergeRequest", NoBranch, prNumber, IF ok THEN "ok" ELSE "err"))
          /\ IF ok
             THEN /\ pc' = "DeleteBranchAfterMerge"
                  /\ UNCHANGED <<runResult, todoServices, todoDeps, service, dep>>
             ELSE SwallowError
    /\ UNCHANGED <<deleteConflictedPRs, mismatches, branchName, dir, updatedDir, prNumber>>

\* mergeMergeRequest: client.DeleteBranch after the merge; an error is logged only
DeleteBranchAfterMerge ==
    /\ pc = "DeleteBranchAfterMerge"
    /\ \E ok \in BOOLEAN :
          /\ calls' = Append(calls, Call("DeleteBranch", branchName, NoPR, IF ok THEN "ok" ELSE "err"))
          /\ IF ok THEN NextDependency ELSE SwallowError
    /\ UNCHANGED <<deleteConflictedPRs, mismatches, branchName, dir, updatedDir, prNumber>>

---------------------------------------------------------------------------
(* Characters and numbers *)

DigitSeq == <<"0", "1", "2", "3", "4", "5", "6", "7", "8", "9">>
Digits == {DigitSeq[i] : i \in 1..Len(DigitSeq)}
LetterSeq == <<"a", "b", "c", "d", "e", "f", "g", "h", "i", "j", "k", "l", "m",
               "n", "o", "p", "q", "r", "s", "t", "u", "v", "w", "x", "y", "z">>
Letters == {LetterSeq[i] : i \in 1..Len(LetterSeq)}

\* [0-9A-Za-z-]; the strings of the model hold lower-case letters only
IdentChars == Digits \cup Letters \cup {"-"}

DigitVal(c) == (CHOOSE i \in 1..Len(DigitSeq) : DigitSeq[i] = c) - 1

\* the order of the bytes '-' < '0'..'9' < 'a'..'z'
CharRank(c) ==
    IF c = "-" THEN 0
    ELSE IF c \in Digits THEN 1 + DigitVal(c)
    ELSE 10 + (CHOOSE i \in 1..Len(LetterSeq) : LetterSeq[i] = c)

\* Go's string comparison: -1, 0 or 1
RECURSIVE CompareStrings(_, _)
CompareStrings(x, y) ==
    IF x = <<>> /\ y = <<>> THEN 0
    ELSE IF x = <<>> THEN -1
    ELSE IF y = <<>> THEN 1
    ELSE IF CharRank(x[1]) < CharRank(y[1]) THEN -1
    ELSE IF CharRank(x[1]) > CharRank(y[1]) THEN 1
    ELSE CompareStrings(Tail(x), Tail(y))

\* the length of the longest prefix of digits
RECURSIVE DigitPrefixLen(_)
DigitPrefixLen(s) ==
    IF s = <<>> \/ s[1] \notin Digits THEN 0 ELSE 1 + DigitPrefixLen(Tail(s))

Rest(s, n) == SubSeq(s, n + 1, Len(s))

AllDigits(s) == s # <<>> /\ \A i \in 1..Len(s) : s[i] \in Digits

\* strconv.ParseUint(s, 10, 64) of a string of digits (every number of the model
\* fits 64 bits)
RECURSIVE ParseUint(_)
ParseUint(s) ==
    IF s = <<>> THEN 0 ELSE 10 * ParseUint(SubSeq(s, 1, Len(s) - 1)) + DigitVal(s[Len(s)])

\* the position of the first c in s, or Len(s) + 1
RECURSIVE IndexOf(_, _)
IndexOf(s, c) == IF s = <<>> \/ s[1] = c THEN 1 ELSE 1 + IndexOf(Tail(s), c)

\* strings.Split(s, ".")
RECURSIVE SplitDots(_)
SplitDots(s) ==
    LET i == IndexOf(s, ".")
    IN  IF i > Len(s) THEN <<s>> ELSE <<SubSeq(s, 1, i - 1)>> \o SplitDots(Rest(s, i))

\* dot separated identifiers of [0-9A-Za-z-], none empty
ValidIdentifiers(s) ==
    \A k \in 1..Len(SplitDots(s)) :
        LET id == SplitDots(s)[k]
        IN  id # <<>> /\ \A i \in 1..Len(id) : id[i] \in IdentChars

\* a numeric identifier with a leading zero
isBadNum(id) == AllDigits(id) /\ Len(id) > 1 /\ id[1] = "0"

NoBadNum(s) == \A k \in 1..Len(SplitDots(s)) : ~isBadNum(SplitDots(s)[k])

---------------------------------------------------------------------------
(* golang.org/x/mod/semver, as version_detection.go uses it *)

\* parseInt: a run of digits without a leading zero
ModParseInt(v) ==
    LET n == DigitPrefixLen(v)
    IN  IF n = 0 \/ (v[1] = "0" /\ n # 1)
        THEN [ok |-> FALSE, t |-> <<>>, rest |-> v]
        ELSE [ok |-> TRUE, t |-> SubSeq(v, 1, n), rest |-> Rest(v, n)]

ModInvalid == [ok |-> FALSE, major |-> <<>>, minor |-> <<>>, patch |-> <<>>, prerelease |-> <<>>]

\* what follows the patch number: -prerelease and +build, both optional
ModParseSuffix(major, minor, patch, rest) ==
    LET plus == IndexOf(rest, "+")
        pre == IF rest # <<>> /\ rest[1] = "-" THEN SubSeq(rest, 1, plus - 1) ELSE <<>>
        build == Rest(rest, Len(pre))
        preOk == pre = <<>> \/ (ValidIdentifiers(Tail(pre)) /\ NoBadNum(Tail(pre)))
        buildOk == build = <<>> \/ (build[1] = "+" /\ ValidIdentifiers(Tail(build)))
    IN  IF preOk /\ buildOk
        THEN [ok |-> TRUE, major |-> major, minor |-> minor, patch |-> patch, prerelease |-> pre]
        ELSE ModInvalid

\* parse: vMAJOR[.MINOR[.PATCH[-PRERELEASE][+BUILD]]]
ModParse(v) ==
    IF v = <<>> \/ v[1] # "v" THEN ModInvalid
    ELSE LET ma == ModParseInt(Tail(v))
         IN  IF ~ma.ok THEN ModInvalid
             ELSE IF ma.rest = <<>>
                  THEN [ok |-> TRUE, major |-> ma.t, minor |-> <<"0">>, patch |-> <<"0">>, prerelease |-> <<>>]
             ELSE IF ma.rest[1] # "." THEN ModInvalid
             ELSE LET mi == ModParseInt(Tail(ma.rest))
                  IN  IF ~mi.ok THEN ModInvalid
                      ELSE IF mi.rest = <<>>
                           THEN [ok |-> TRUE, major |-> ma.t, minor |-> mi.t, patch |-> <<"0">>, prerelease |-> <<>>]
                      ELSE IF mi.rest[1] # "." THEN ModInvalid
                      ELSE LET pa == ModParseInt(Tail(mi.rest))
                           IN  IF ~pa.ok THEN ModInvalid
                               ELSE ModParseSuffix(ma.t, mi.t, pa.t, pa.rest)

\* semver.Prerelease: "" for an invalid version
ModPrerelease(v) == ModParse(v).prerelease

\* compareInt: the digit strings have no leading zeros
ModCompareInt(x, y) ==
    IF x = y THEN 0
    ELSE IF Len(x) < Len(y) THEN -1
    ELSE IF Len(x) > Len(y) THEN 1
    ELSE CompareStrings(x, y)

\* comparePrerelease is reached only by versions that carry a prerelease; the
\* tags version_detection.go compares carry none
ModComparePrerelease(x, y) ==
    IF x = y THEN 0
    ELSE IF x = <<>> THEN 1
    ELSE IF y = <<>> THEN -1
    ELSE CompareStrings(x, y)

\* semver.Compare: an invalid version is less than a valid one, two invalid
\* versions are equal
ModCompare(v, w) ==
    LET pv == ModParse(v)
        pw == ModParse(w)
    IN  IF ~pv.ok /\ ~pw.ok THEN 0
        ELSE IF ~pv.ok THEN -1
        ELSE IF ~pw.ok THEN 1
        ELSE IF ModCompareInt(pv.major, pw.major) # 0 THEN ModCompareInt(pv.major, pw.major)
        ELSE IF ModCompareInt(pv.minor, pw.minor) # 0 THEN ModCompareInt(pv.minor, pw.minor)
        ELSE IF ModCompareInt(pv.patch, pw.patch) # 0 THEN ModCompareInt(pv.patch, pw.patch)
        ELSE ModComparePrerelease(pv.prerelease, pw.prerelease)

---------------------------------------------------------------------------
(* version_detection.go *)

\* a tag whose Name is nil
NilName == <<"<nil>">>

\* ^v[0-9]+\.[0-9]+\.[0-9]+$
semverRE(name) ==
    /\ name # <<>>
    /\ name[1] = "v"
    /\ LET r1 == Tail(name)
           n1 == DigitPrefixLen(r1)
           r2 == Rest(r1, n1)
           n2 == DigitPrefixLen(Rest(r2, 1))
           r3 == Rest(r2, 1 + n2)
           n3 == DigitPrefixLen(Rest(r3, 1))
       IN  /\ n1 > 0
           /\ r2 # <<>> /\ r2[1] = "." /\ n2 > 0
           /\ r3 # <<>> /\ r3[1] = "." /\ n3 > 0
           /\ Rest(r3, 1 + n3) = <<>>

\* the filter of latestSemverTag
KeepTag(name) == name # NilName /\ semverRE(name) /\ ModPrerelease(name) = <<>>

\* the comparison sort.Slice is given: descending
VersionBefore(x, y) == ModCompare(x, y) > 0

\* the inner loop of the insertion sort: the last element sinks while it is to
\* come before its left neighbour
RECURSIVE InsertLast(_)
InsertLast(xs) ==
    LET n == Len(xs)
    IN  IF n >= 2 /\ VersionBefore(xs[n], xs[n - 1])
        THEN InsertLast(SubSeq(xs, 1, n - 2) \o <<xs[n]>>) \o <<xs[n - 1]>>
        ELSE xs

\* sort.Slice on a short slice is an insertion sort
RECURSIVE SortSlice(_)
SortSlice(xs) ==
    IF Len(xs) < 2 THEN xs
    ELSE InsertLast(SortSlice(SubSeq(xs, 1, Len(xs) - 1)) \o <<xs[Len(xs)]>>)

latestSemverTag(tags) ==
    LET versions == SelectSeq(tags, KeepTag)
    IN  IF Len(versions) = 0 THEN <<>> ELSE SortSlice(versions)[1]

---------------------------------------------------------------------------
(* parseOwnerAndRepo, as pkg/repofetchers/util.go writes it *)

githubPrefix == <<"g","i","t","h","u","b",".","c","o","m","/">>

\* the index after the first occurrence of prefix that starts before
\* len(url)-len(prefix), or -1
findPrefixIndex(url, prefix) ==
    LET hits == {i \in 0..(Len(url) - Len(prefix) - 1) :
                     SubSeq(url, i + 1, i + Len(prefix)) = prefix}
    IN  IF hits = {} THEN -1
        ELSE (CHOOSE i \in hits : \A j \in hits : i <= j) + Len(prefix)

trimGitSuffix(s) ==
    IF Len(s) > 4 /\ SubSeq(s, Len(s) - 3, Len(s)) = <<".", "g", "i", "t">>
    THEN SubSeq(s, 1, Len(s) - 4)
    ELSE s

\* the loop of splitOwnerRepo: a '/' opens a new part, any other character
\* joins the last part
RECURSIVE splitOwnerRepoFrom(_, _)
splitOwnerRepoFrom(parts, rest) ==
    IF rest = <<>> THEN parts
    ELSE IF rest[1] = "/" THEN splitOwnerRepoFrom(Append(parts, <<>>), Tail(rest))
    ELSE LET ps == IF parts = <<>> THEN <<(<<>>)>> ELSE parts
         IN  splitOwnerRepoFrom([ps EXCEPT ![Len(ps)] = Append(@, rest[1])], Tail(rest))

splitOwnerRepo(rest) == splitOwnerRepoFrom(<<>>, rest)

parseOwnerAndRepo(url) ==
    LET idx == findPrefixIndex(url, githubPrefix)
        parts == splitOwnerRepo(trimGitSuffix(Rest(url, idx)))
    IN  IF idx = -1 \/ Rest(url, idx) = <<>> \/ Len(parts) # 2
        THEN <<(<<>>), (<<>>)>>
        ELSE <<parts[1], parts[2]>>

---------------------------------------------------------------------------
(* github.com/Masterminds/semver/v3, as inconsistency_checker.go uses it *)

MMInvalid == [ok |-> FALSE, major |-> 0, minor |-> 0, patch |-> 0, pre |-> <<>>]

\* an optional ".digits" segment: its digits and what follows it
MMSegment(s) ==
    IF s # <<>> /\ s[1] = "." /\ DigitPrefixLen(Tail(s)) > 0
    THEN [t |-> SubSeq(s, 2, 1 + DigitPrefixLen(Tail(s))), rest |-> Rest(s, 1 + DigitPrefixLen(Tail(s)))]
    ELSE [t |-> <<>>, rest |-> s]

\* NewVersion: v?MAJOR(.MINOR)?(.PATCH)?(-PRE)?(+META)?, missing segments are 0,
\* leading zeros of the numbers are read away, a numeric prerelease identifier
\* may not start with a zero
NewVersion(v) ==
    LET s0 == IF v # <<>> /\ v[1] = "v" THEN Tail(v) ELSE v
        n1 == DigitPrefixLen(s0)
        mi == MMSegment(Rest(s0, n1))
        pa == MMSegment(mi.rest)
        r3 == pa.rest
        plus == IndexOf(r3, "+")
        pre == IF r3 # <<>> /\ r3[1] = "-" THEN SubSeq(r3, 2, plus - 1) ELSE <<>>
        hasPre == r3 # <<>> /\ r3[1] = "-"
        meta == IF hasPre THEN Rest(r3, 1 + Len(pre)) ELSE r3
    IN  IF n1 = 0 THEN MMInvalid
        ELSE IF hasPre /\ ~ValidIdentifiers(pre) THEN MMInvalid
        ELSE IF meta # <<>> /\ ~(meta[1] = "+" /\ ValidIdentifiers(Tail(meta))) THEN MMInvalid
        ELSE IF hasPre /\ ~NoBadNum(pre) THEN MMInvalid
        ELSE [ok |-> TRUE,
              major |-> ParseUint(SubSeq(s0, 1, n1)),
              minor |-> ParseUint(mi.t),
              patch |-> ParseUint(pa.t),
              pre |-> pre]

compareSegment(v, o) == IF v < o THEN -1 ELSE IF v > o THEN 1 ELSE 0

\* numeric identifiers compare as numbers and are lower than alphanumeric ones
comparePrePart(s, o) ==
    IF s = o THEN 0
    ELSE IF s = <<>> THEN -1
    ELSE IF o = <<>> THEN 1
    ELSE IF ~AllDigits(s) /\ ~AllDigits(o)
         THEN (IF CompareStrings(s, o) > 0 THEN 1 ELSE -1)
    ELSE IF ~AllDigits(o) THEN -1
    ELSE IF ~AllDigits(s) THEN 1
    ELSE IF ParseUint(s) > ParseUint(o) THEN 1 ELSE -1

RECURSIVE comparePreParts(_, _)
comparePreParts(sparts, oparts) ==
    IF sparts = <<>> /\ oparts = <<>> THEN 0
    ELSE LET stemp == IF sparts = <<>> THEN <<>> ELSE Head(sparts)
             otemp == IF oparts = <<>> THEN <<>> ELSE Head(oparts)
             d == comparePrePart(stemp, otemp)
         IN  IF d # 0 THEN d
             ELSE comparePreParts(IF sparts = <<>> THEN <<>> ELSE Tail(sparts),
                                  IF oparts = <<>> THEN <<>> ELSE Tail(oparts))

comparePrerelease(v, o) == comparePreParts(SplitDots(v), SplitDots(o))

\* Version.Compare
MMCompare(v, o) ==
    IF compareSegment(v.major, o.major) # 0 THEN compareSegment(v.major, o.major)
    ELSE IF compareSegment(v.minor, o.minor) # 0 THEN compareSegment(v.minor, o.minor)
    ELSE IF compareSegment(v.patch, o.patch) # 0 THEN compareSegment(v.patch, o.patch)
    ELSE IF v.pre = <<>> /\ o.pre = <<>> THEN 0
    ELSE IF v.pre = <<>> THEN 1
    ELSE IF o.pre = <<>> THEN -1
    ELSE comparePrerelease(v.pre, o.pre)

LessThan_Mut(v, o) == MMCompare(v, o) <= 0

\* Version.LessThan
LessThan(v, o) == MMCompare(v, o) < 0

---------------------------------------------------------------------------
(* pkg/depgraph: the graph builder *)

v1_9_0      == <<"v","1",".","9",".","0">>
v1_10_0_rc1 == <<"v","1",".","1","0",".","0","-","r","c","1">>
v01_0_0     == <<"v","0","1",".","0",".","0">>
v02_0_0     == <<"v","0","2",".","0",".","0">>
release_1_11 == <<"r","e","l","e","a","s","e","-","1",".","1","1">>
notAVersion == <<"n","o","t","-","a","-","v","e","r","s","i","o","n">>

\* the nil *Service
NilService == 0

\* where the Service node of a module path is allocated
Addr(p) ==
    CASE p = pA -> 1
      [] p = pB -> 2
      [] p = pC -> 3
      [] p = pX -> 4

AllPaths == ModulePaths \cup {pX}

\* one line of a go.mod file
Line(verb, path, version) == [Verb |-> verb, Path |-> path, Version |-> version]

\* the require lines the manifests of the model are written with; "requires"
\* is not a directive of go.mod
RequireLines ==
    {Line("require", pA, v1_0_0),
     Line("require", pB, v1_0_0), Line("require", pB, v1_2_0),
     Line("require", pC, v1_0_0), Line("require", pC, v1_2_0),
     Line("requires", pC, v1_0_0)}

\* the go.mod of module p with the given lines after its module directive
GoMod(p, lines) == [RepoURL |-> repoURL(p), GoModContent |-> <<Line("module", p, <<>>)>> \o lines]

LineSeqs == UNION {[1..n -> RequireLines] : n \in 0..MaxRequires}

\* the sets of module paths BuildGraph is given
BuildKeySets == (SUBSET ModulePaths) \ {{}}

IsRequire(line) == line.Verb = "require"

\* modfile.Parse: the require directives in file order, or an error when a
\* line is no directive.  The versions of the model's lines are canonical, so
\* that Parse leaves them as written.
modfile_Parse(content) ==
    IF \E i \in 1..Len(content) : content[i].Verb \notin {"module", "require"}
    THEN [err |-> TRUE, Require |-> <<>>]
    ELSE LET reqs == SelectSeq(content, IsRequire)
         IN  [err |-> FALSE,
              Require |-> [i \in 1..Len(reqs) |->
                              [Mod |-> [Path |-> reqs[i].Path, Version |-> reqs[i].Version]]]]

\* the paths some manifest of mods requires
RequiredPaths(mods) ==
    {l.Path : l \in UNION {{mods[p].GoModContent[i] : i \in 1..Len(mods[p].GoModContent)} :
                           p \in DOMAIN mods}}

ServiceKeys_Mut(mods) == DOMAIN mods \cup RequiredPaths(mods)

\* first pass: the module paths a node is created for
ServiceKeys(mods) == DOMAIN mods

\* first pass: services[modulePath] = &Service{...}
FirstPassServices(mods) == [p \in ServiceKeys(mods) |-> Addr(p)]

FirstPassHeap(mods) ==
    [a \in {Addr(p) : p \in ServiceKeys(mods)} |->
        [ModulePath |-> CHOOSE p \in ServiceKeys(mods) : Addr(p) = a,
         Dependencies |-> <<>>,
         LatestVersion |-> <<>>]]

NewDependency_Mut(services, modulePath, depPath, version) ==
    [Service |-> services[modulePath], CurrentVersion |-> version]

\* Dependency{Service: depService, CurrentVersion: req.Mod.Version}
NewDependency(services, modulePath, depPath, version) ==
    [Service |-> services[depPath], CurrentVersion |-> version]

\* m[k] = v
MapPut(m, k, v) == [x \in DOMAIN m \cup {k} |-> IF x = k THEN v ELSE m[x]]

\* second pass, the loop over mf.Require of one module
RECURSIVE WireRequires(_, _, _, _)
WireRequires(services, modulePath, reqs, deps) ==
    IF reqs = <<>> THEN deps
    ELSE LET depPath == Head(reqs).Mod.Path
         IN  WireRequires(services, modulePath, Tail(reqs),
                 IF depPath \in DOMAIN services
                 THEN MapPut(deps, depPath,
                             NewDependency(services, modulePath, depPath, Head(reqs).Mod.Version))
                 ELSE deps)

\* what BuildGraph returns: the map, the nodes it points to, the error
BuildGraphResult(mods) ==
    LET services == FirstPassServices(mods)
        nodes == FirstPassHeap(mods)
    IN  IF \E p \in DOMAIN mods : modfile_Parse(mods[p].GoModContent).err
        THEN [graph |-> <<>>, heap |-> <<>>, err |-> "failed to parse go.mod"]
        ELSE [graph |-> services,
              heap |-> [a \in DOMAIN nodes |->
                          IF nodes[a].ModulePath \in DOMAIN mods
                          THEN [nodes[a] EXCEPT !.Dependencies =
                                   WireRequires(services, nodes[a].ModulePath,
                                       modfile_Parse(mods[nodes[a].ModulePath].GoModContent).Require,
                                       <<>>)]
                          ELSE nodes[a]],
              err |-> ""]

\* the variables of the orchestrator while the graph pipeline is looked at
OrchIdle ==
    /\ deleteConflictedPRs = FALSE
    /\ mismatches = <<>>
    /\ todoServices = {}
    /\ todoDeps = {}
    /\ service = ""
    /\ dep = ""
    /\ pc = "idle"
    /\ branchName = NoBranch
    /\ dir = NoDir
    /\ updatedDir = NoDir
    /\ prNumber = NoPR
    /\ calls = <<>>
    /\ runResult = ""

\* the variables of the graph pipeline while the orchestrator is looked at
GraphIdle ==
    /\ modules = <<>>
    /\ graph = <<>>
    /\ heap = <<>>
    /\ gpc = "idle"
    /\ graphErr = ""
    /\ todoDetect = {}
    /\ lastService = ""
    /\ lastTags = <<>>

BuildInit ==
    /\ OrchIdle
    /\ OthersIdle
    /\ \E K \in BuildKeySets : \E ls \in [K -> LineSeqs] :
          modules = [p \in K |-> GoMod(p, ls[p])]
    /\ graph = <<>>
    /\ heap = <<>>
    /\ gpc = "BuildGraph"
    /\ graphErr = ""
    /\ todoDetect = {}
    /\ lastService = ""
    /\ lastTags = <<>>

BuildGraph ==
    /\ gpc = "BuildGraph"
    /\ graph' = BuildGraphResult(modules).graph
    /\ heap' = BuildGraphResult(modules).heap
    /\ graphErr' = BuildGraphResult(modules).err
    /\ gpc' = "built"
    /\ UNCHANGED <<modules, todoDetect, lastService, lastTags, orchVars>>
    /\ UNCHANGED <<pollVars, envVars, raceVars, runVars, fnVars>>

SpecBuild == BuildInit /\ [][BuildGraph]_vars

---------------------------------------------------------------------------
(* pkg/repo: the version detector *)

\* the names of the tags a repository of the model may carry
TagNames == {v1_9_0, v1_10_0, v1_10_0_rc1, release_1_11, v01_0_0, v02_0_0, NilName}

TagLists == UNION {[1..n -> TagNames] : n \in 0..MaxTags}

\* the go.mod files the detector's graphs are built from
DetectModules(K) ==
    [p \in K |-> GoMod(p, IF p = pA THEN <<Line("require", pB, v1_0_0)>>
                          ELSE IF p = pX THEN <<Line("require", pA, v1_0_0)>>
                          ELSE <<>>)]

DetectKeySets == (SUBSET {pA, pB, pX}) \ {{}}

\* mutant: the detector writes the version into the edges that point at the
\* service, as their CurrentVersion
SetLatestVersion_Mut(h, svc, latest) ==
    [a \in DOMAIN h |->
        [h[a] EXCEPT !.Dependencies =
            [d \in DOMAIN h[a].Dependencies |->
                IF h[a].Dependencies[d].Service = svc
                THEN [h[a].Dependencies[d] EXCEPT !.CurrentVersion = latest]
                ELSE h[a].Dependencies[d]]]]

\* svc.LatestVersion = latest
SetLatestVersion(h, svc, latest) == [h EXCEPT ![svc].LatestVersion = latest]

DetectInit ==
    /\ OrchIdle
    /\ OthersIdle
    /\ \E K \in DetectKeySets :
          /\ modules = DetectModules(K)
          /\ graph = BuildGraphResult(DetectModules(K)).graph
          /\ heap = BuildGraphResult(DetectModules(K)).heap
          /\ todoDetect = K
    /\ gpc = "DetectAndSetCurrentVersions"
    /\ graphErr = ""
    /\ lastService = ""
    /\ lastTags = <<>>

\* one turn of the loop over the services, or the return after the last one
DetectAndSetCurrentVersions ==
    /\ gpc = "DetectAndSetCurrentVersions"
    /\ IF todoDetect = {}
       THEN /\ gpc' = "detected"
            /\ UNCHANGED <<heap, graphErr, todoDetect, lastService, lastTags>>
       ELSE \E svc \in todoDetect :
               LET ownerRepo == parseOwnerAndRepo(PathChars(heap[graph[svc]].ModulePath))
               IN  IF ownerRepo[1] = <<>> \/ ownerRepo[2] = <<>>
                   THEN /\ graphErr' = "invalid module path"
                        /\ gpc' = "detected"
                        /\ UNCHANGED <<heap, todoDetect, lastService, lastTags>>
                   ELSE \E ok \in BOOLEAN, tags \in TagLists :
                           /\ lastService' = svc
                           /\ IF ~ok
                              THEN /\ tags = <<>>
                                   /\ graphErr' = "error fetching tags"
                                   /\ gpc' = "detected"
                                   /\ lastTags' = <<>>
                                   /\ UNCHANGED <<heap, todoDetect>>
                              ELSE /\ lastTags' = tags
                                   /\ heap' = IF latestSemverTag(tags) # <<>>
                                              THEN SetLatestVersion(heap, graph[svc], latestSemverTag(tags))
                                              ELSE heap
                                   /\ todoDetect' = todoDetect \ {svc}
                                   /\ UNCHANGED <<graphErr, gpc>>
    /\ UNCHANGED <<modules, graph, orchVars>>
    /\ UNCHANGED <<pollVars, envVars, raceVars, runVars, fnVars>>

SpecDetect == DetectInit /\ [][DetectAndSetCurrentVersions]_vars

---------------------------------------------------------------------------
(* pkg/depgraph/inconsistency_checker.go *)

\* the versions an edge of the checker's graphs pins (<<>>: no such edge)
PinStrings == {v1_0_0, v1_2_0, v1_10_0, v1_10_0_rc1, notAVersion}

\* the latest versions of the checker's graphs
LatestStrings == {<<>>, v1_2_0, v1_10_0, v02_0_0, notAVersion}

\* a graph as BuildGraph and the version detector leave it: one node per
\* path, every edge to the node of its dependency
CheckHeap(pins, lats) ==
    [a \in {Addr(p) : p \in ModulePaths} |->
        LET p == CHOOSE q \in ModulePaths : Addr(q) = a
        IN  [ModulePath |-> p,
             Dependencies |-> [d \in {x \in ModulePaths : <<p, x>> \in OrchEdges /\ pins[<<p, x>>] # <<>>} |->
                                  [Service |-> Addr(d), CurrentVersion |-> pins[<<p, d>>]]],
             LatestVersion |-> lats[p]]]

CheckInit ==
    /\ OrchIdle
    /\ OthersIdle
    /\ modules = <<>>
    /\ graph = [p \in ModulePaths |-> Addr(p)]
    /\ \E pins \in [OrchEdges -> PinStrings \cup {<<>>}],
          lats \in [ModulePaths -> LatestStrings] :
          /\ lats[pA] = <<>>
          /\ heap = CheckHeap(pins, lats)
    /\ gpc = "Check"
    /\ graphErr = ""
    /\ todoDetect = {}
    /\ lastService = ""
    /\ lastTags = <<>>

DependenciesOf(s) == heap[graph[s]].Dependencies

\* the edges Check does not skip: neither end nil, the latest version known
CheckedEdges ==
    {e \in (DOMAIN graph) \X AllPaths :
        /\ graph[e[1]] # NilService
        /\ e[2] \in DOMAIN DependenciesOf(e[1])
        /\ DependenciesOf(e[1])[e[2]].Service # NilService
        /\ heap[DependenciesOf(e[1])[e[2]].Service].LatestVersion # <<>>}

ActualOf(e) == DependenciesOf(e[1])[e[2]].CurrentVersion
LatestVersionOf(e) == heap[DependenciesOf(e[1])[e[2]].Service].LatestVersion

\* the edges at which Check returns an error
UnparsableEdges ==
    {e \in CheckedEdges : ~NewVersion(ActualOf(e)).ok \/ ~NewVersion(LatestVersionOf(e)).ok}

\* result[svcPath][depPath] = Mismatch{...} where actualVer.LessThan(latestVer)
CheckResult ==
    [e \in {x \in CheckedEdges : LessThan(NewVersion(ActualOf(x)), NewVersion(LatestVersionOf(x)))} |->
        [Actual |-> ActualOf(e), Latest |-> LatestVersionOf(e)]]

\* the format of the error Check returns at edge e: the pinned version is
\* parsed first
CheckErrorFormat(e) ==
    IF ~NewVersion(ActualOf(e)).ok
    THEN "failed to parse actual version"
    ELSE "failed to parse latest version"

\* the operands of fmt.Errorf, without the wrapped error: version, depPath and
\* svcPath for the pinned version; version and depPath for the latest one
CheckErrorOperands(e) ==
    IF ~NewVersion(ActualOf(e)).ok
    THEN <<ActualOf(e), e[2], e[1]>>
    ELSE <<LatestVersionOf(e), e[2]>>

\* Check: the mismatches of the graph, or the error of the first edge met
\* whose versions do not parse (the maps are walked in any order)
Check ==
    /\ gpc = "Check"
    /\ IF UnparsableEdges = {}
       THEN /\ mismatches' = CheckResult
            /\ graphErr' = ""
            /\ errArgs' = <<>>
       ELSE \E e \in UnparsableEdges :
               /\ mismatches' = <<>>
               /\ graphErr' = CheckErrorFormat(e)
               /\ errArgs' = CheckErrorOperands(e)
    /\ gpc' = "checked"
    /\ UNCHANGED <<deleteConflictedPRs, todoServices, todoDeps, service, dep, pc,
                   branchName, dir, updatedDir, prNumber, calls, runResult>>
    /\ UNCHANGED <<modules, graph, heap, todoDetect, lastService, lastTags>>
    /\ UNCHANGED <<pollVars, envVars, raceVars, repositories, stages, fnVars>>

SpecCheck == CheckInit /\ [][Check]_vars

---------------------------------------------------------------------------
(* pkg/depgraph/inconsistency_checker.go: the loops of Check, in the order
   the runtime walks the two maps *)

\* the pairs the two range loops visit
RangeEdges ==
    {e \in (DOMAIN graph) \X AllPaths :
        graph[e[1]] # NilService /\ e[2] \in DOMAIN DependenciesOf(e[1])}

\* the orders in which the loops can visit them: the services in any order,
\* the dependencies of one service one after the other in any order
RangeOrders ==
    {o \in [1..Cardinality(RangeEdges) -> RangeEdges] :
        /\ \A i, j \in DOMAIN o : o[i] = o[j] => i = j
        /\ \A i, j, k \in DOMAIN o : (i < j /\ j < k /\ o[i][1] = o[k][1]) => o[j][1] = o[i][1]}

\* mutant: the pinned version is parsed before the latest version is looked at
RangeBody_Mut(e) ==
    IF DependenciesOf(e[1])[e[2]].Service = NilService THEN "continue"
    ELSE IF ~NewVersion(ActualOf(e)).ok THEN "failed to parse actual version"
    ELSE IF LatestVersionOf(e) = <<>> THEN "continue"
    ELSE IF ~NewVersion(LatestVersionOf(e)).ok THEN "failed to parse latest version"
    ELSE IF LessThan(NewVersion(ActualOf(e)), NewVersion(LatestVersionOf(e))) THEN "mismatch"
    ELSE "continue"

\* the body of the inner loop at edge e
RangeBody(e) ==
    IF DependenciesOf(e[1])[e[2]].Service = NilService THEN "continue"
    ELSE IF LatestVersionOf(e) = <<>> THEN "continue"
    ELSE IF ~NewVersion(ActualOf(e)).ok THEN "failed to parse actual version"
    ELSE IF ~NewVersion(LatestVersionOf(e)).ok THEN "failed to parse latest version"
    ELSE IF LessThan(NewVersion(ActualOf(e)), NewVersion(LatestVersionOf(e))) THEN "mismatch"
    ELSE "continue"

CheckReturn(result, err, at) == [result |-> result, err |-> err, at |-> at]

\* Check along the order o from its i-th edge on, result being the map built
\* so far
RECURSIVE CheckAlong(_, _, _)
CheckAlong(o, i, result) ==
    IF i > Len(o) THEN CheckReturn(result, "", <<>>)
    ELSE LET e == o[i]
             body == RangeBody(e)
         IN  IF body = "continue" THEN CheckAlong(o, i + 1, result)
             ELSE IF body = "mismatch"
             THEN CheckAlong(o, i + 1,
                             MapPut(result, e, [Actual |-> ActualOf(e), Latest |-> LatestVersionOf(e)]))
             ELSE CheckReturn(<<>>, body, e)

\* one call of Check on the graph, the runtime choosing the order
call_Check ==
    /\ gpc = "Check"
    /\ Len(fnResults) < 2
    /\ \E o \in RangeOrders : fnResults' = Append(fnResults, CheckAlong(o, 1, <<>>))
    /\ UNCHANGED fnArgs
    /\ UNCHANGED <<orchVars, graphVars, pollVars, envVars, raceVars, runVars>>

SpecCheckOrder == CheckInit /\ [][call_Check]_vars

---------------------------------------------------------------------------
(* pkg/adapters/github/client.go: CheckMergeConflicts *)

httpsPrefix == <<"h","t","t","p","s",":","/","/">>

\* strings.TrimPrefix
TrimPrefix(s, prefix) ==
    IF Len(s) >= Len(prefix) /\ SubSeq(s, 1, Len(prefix)) = prefix
    THEN Rest(s, Len(prefix))
    ELSE s

\* strings.Split(s, "/")
RECURSIVE SplitSlash(_)
SplitSlash(s) ==
    LET i == IndexOf(s, "/")
    IN  IF i > Len(s) THEN <<s>> ELSE <<SubSeq(s, 1, i - 1)>> \o SplitSlash(Rest(s, i))

\* extractOwnerAndRepo: https://host/owner/repo, else an error
extractOwnerAndRepo(url) ==
    LET parts == SplitSlash(TrimPrefix(url, httpsPrefix))
    IN  IF Len(parts) # 3
        THEN [owner |-> <<>>, repo |-> <<>>, err |-> "invalid repository URL format"]
        ELSE [owner |-> parts[2], repo |-> parts[3], err |-> ""]

\* the repository URLs CheckMergeConflicts is called with: two the orchestrator
\* builds, and one with a path too many
MergeRepoURLs ==
    {httpsPrefix \o PathChars(pA), httpsPrefix \o PathChars(pB),
     httpsPrefix \o PathChars(pA) \o <<"/", "x">>}

maxRetries == 5

\* baseDelay, in seconds
baseDelay == 2

\* PullRequests.Get failed
GetFailed == "<get failed>"

\* what pr.GetMergeableState() may be: the states the switch names, two more
\* states of the forge, and "" for a pull request without the field
MergeableStates ==
    {"clean", "conflicting", "unstable", "dirty", "blocked", "unknown", "behind", "draft", ""}

hasConflictsOf_Mut(mergeableState) == mergeableState \in {"conflicting", "dirty"}

\* the cases of the switch that set hasConflicts
hasConflictsOf(mergeableState) == mergeableState = "conflicting"

\* mutant: clean is not among the cases of the switch
DecisiveStates_Mut == {"conflicting", "unstable", "dirty", "blocked"}

\* the cases of the switch that set hasConflicts and leave the loop
DecisiveStates == {"clean", "conflicting", "unstable", "dirty", "blocked"}

maxRetries_Mut == maxRetries + 1

\* the bound of the retry loop
RetryLimit == maxRetries

delayOf_Mut(n) == baseDelay * (n + 1)

\* delay := baseDelay * time.Duration(1<<attempt), in seconds
delayOf(n) == baseDelay * 2^n

Returned(hasConflicts, err) == [hasConflicts |-> hasConflicts, err |-> err]

MergeInit ==
    /\ OrchIdle
    /\ GraphIdle
    /\ EnvIdle
    /\ RaceIdle
    /\ RunIdle
    /\ FnIdle
    /\ mergeParams \in [RepoURL : MergeRepoURLs, PRNumber : {OpenPRNumber(e[1], e[2]) : e \in OrchEdges}]
    /\ attempt = 0
    /\ polls = <<>>
    /\ sleeps = <<>>
    /\ mpc = "CheckMergeConflicts"
    /\ mresult = <<>>

\* CheckMergeConflicts up to the retry loop
client_CheckMergeConflicts ==
    /\ mpc = "CheckMergeConflicts"
    /\ IF extractOwnerAndRepo(mergeParams.RepoURL).err # ""
       THEN /\ mpc' = "returned"
            /\ mresult' = Returned(FALSE, extractOwnerAndRepo(mergeParams.RepoURL).err)
       ELSE /\ mpc' = "Get"
            /\ UNCHANGED mresult
    /\ UNCHANGED <<mergeParams, attempt, polls, sleeps>>
    /\ UNCHANGED <<orchVars, graphVars, envVars, raceVars, runVars, fnVars>>

\* one turn of the loop of checkMergeConflictsWithRetry: the pull request is
\* fetched and its mergeable state looked at; a call with a cancelled context fails
checkMergeConflictsWithRetry ==
    /\ mpc = "Get"
    /\ IF attempt >= RetryLimit
       THEN /\ mpc' = "returned"
            /\ mresult' = Returned(FALSE, "unexpected retry loop exit")
            /\ UNCHANGED <<polls, sleeps>>
       ELSE \E got \in (IF cancelled THEN {GetFailed} ELSE MergeableStates \cup {GetFailed}) :
               /\ polls' = Append(polls, got)
               /\ IF got = GetFailed
                  THEN /\ mpc' = "returned"
                       /\ mresult' = Returned(FALSE, "failed to get pull request")
                       /\ UNCHANGED sleeps
                  ELSE IF got \in DecisiveStates
                  THEN /\ mpc' = "returned"
                       /\ mresult' = Returned(hasConflictsOf(got), "")
                       /\ UNCHANGED sleeps
                  ELSE IF got = "unknown"
                  THEN IF attempt < RetryLimit - 1
                       THEN /\ mpc' = "Sleep"
                            /\ sleeps' = Append(sleeps, delayOf(attempt))
                            /\ UNCHANGED mresult
                       ELSE /\ mpc' = "returned"
                            /\ mresult' = Returned(FALSE, "mergeability not yet computed")
                            /\ UNCHANGED sleeps
                  ELSE /\ mpc' = "returned"
                       /\ mresult' = Returned(FALSE, "unknown mergeable state")
                       /\ UNCHANGED sleeps
    /\ UNCHANGED <<mergeParams, attempt>>
    /\ UNCHANGED <<orchVars, graphVars, envVars, raceVars, runVars, fnVars>>

\* time.Sleep(delay) returns and the loop goes on with attempt++; time.Sleep
\* does not look at the context
timeSleep ==
    /\ mpc = "Sleep"
    /\ attempt' = attempt + 1
    /\ mpc' = "Get"
    /\ UNCHANGED <<mergeParams, polls, sleeps, mresult>>
    /\ UNCHANGED <<orchVars, graphVars, envVars, raceVars, runVars, fnVars>>

\* the context is cancelled while CheckMergeConflicts is at work
CancelDuringPolling ==
    /\ mpc \in {"Get", "Sleep"}
    /\ ~cancelled
    /\ cancelled' = TRUE
    /\ cancelledAt' = mpc
    /\ UNCHANGED <<remoteBranches, pulls, deferred>>
    /\ UNCHANGED <<orchVars, graphVars, pollVars, raceVars, runVars, fnVars>>

MergeNext ==
    \/ client_CheckMergeConflicts
    \/ checkMergeConflictsWithRetry
    \/ timeSleep
    \/ CancelDuringPolling

SpecMerge == MergeInit /\ [][MergeNext]_vars

---------------------------------------------------------------------------
(* Runs of the orchestrator against a forge that keeps branches and pull
   requests between them *)

DepSyncPRTitlePrefix == "chores(depsync):"

\* adapters.FormatCommitMessage: the shared prefix, then the module path and
\* the target version
FormatCommitMessage(modulePath, targetVersion) ==
    <<DepSyncPRTitlePrefix, " update ", modulePath, " to ", targetVersion>>

generateMRTitle(modulePath, targetVersion) == FormatCommitMessage(modulePath, targetVersion)

\* a title somebody else gave a pull request opened from the same branch name
ForeignTitle == <<"manual:", " bump by hand">>

\* strings.HasPrefix(title, DepSyncPRTitlePrefix)
IsOwnTitle(title) == title[1] = DepSyncPRTitlePrefix

\* the edges the runs against the forge find mismatched
ForgeEdges == {<<pA, pB>>, <<pB, pC>>}

ForgeMismatchMaps ==
    {[e \in M |-> [Actual |-> v1_0_0, Latest |-> LatestOf(e[2])]] : M \in (SUBSET ForgeEdges) \ {{}}}

\* the repository and the branch of the update of an edge
KeyOf(e) == <<repoURL(e[1]), generateBranchName(e[2], LatestOf(e[2]))>>

PullRequest(state, title, mergeable, checks) ==
    [state |-> state, title |-> title, mergeable |-> mergeable, checks |-> checks]

\* what a partial or aborted run, or somebody else, can have left for an edge:
\* nothing, the branch alone, or the branch with an open pull request
LeftBehind(e) ==
    {[branch |-> FALSE, pull |-> <<>>], [branch |-> TRUE, pull |-> <<>>]}
    \cup {[branch |-> TRUE, pull |-> <<PullRequest("open", t, m, c)>>] :
            t \in {generateMRTitle(e[2], LatestOf(e[2])), ForeignTitle},
            m \in {"clean", "conflicting"},
            c \in CheckStatuses}

ForgeInit ==
    /\ GraphIdle
    /\ PollIdle
    /\ RaceIdle
    /\ RunIdle
    /\ FnIdle
    /\ cancelled = FALSE
    /\ cancelledAt = ""
    /\ deferred = {}
    /\ deleteConflictedPRs \in BOOLEAN
    /\ mismatches \in ForgeMismatchMaps
    /\ \E left \in [DOMAIN mismatches -> UNION {LeftBehind(e) : e \in ForgeEdges}] :
          /\ \A e \in DOMAIN mismatches : left[e] \in LeftBehind(e)
          /\ remoteBranches = {KeyOf(e) : e \in {x \in DOMAIN mismatches : left[x].branch}}
          /\ pulls = [k \in {KeyOf(e) : e \in {x \in DOMAIN mismatches : left[x].pull # <<>>}} |->
                        left[CHOOSE e \in DOMAIN mismatches : KeyOf(e) = k].pull[1]]
    /\ todoServices = {}
    /\ todoDeps = {}
    /\ service = ""
    /\ dep = ""
    /\ pc = "Run"
    /\ branchName = NoBranch
    /\ dir = NoDir
    /\ updatedDir = NoDir
    /\ prNumber = NoPR
    /\ calls = <<>>
    /\ runResult = ""

\* a step of Run
OrchStep ==
    \/ Run
    \/ fixModules
    \/ CloneRepo
    \/ CheckBranchExists
    \/ UpdateGoDependency
    \/ CommitAndPush
    \/ CheckPullRequestExists
    \/ CreateMergeRequest
    \/ CheckMergeConflicts
    \/ DeletePullRequest
    \/ DeleteBranchOfConflictedPR
    \/ GetPullRequestChecks
    \/ MergeMergeRequest
    \/ DeleteBranchAfterMerge

IsOpen(key) == key \in DOMAIN pulls /\ pulls[key].state = "open"

\* git ls-remote --heads origin <branch> prints a line
ForgeBranchExists(key) == key \in remoteBranches

\* what the forge answers to a call about the branch key: the result, and the
\* pull request number where the call returns one; git push without force is
\* rejected when the branch exists
ForgeAnswer(op, key, svc, d) ==
    CASE op = "CheckBranchExists" ->
            [res |-> IF ForgeBranchExists(key) THEN "true" ELSE "false", pr |-> NoPR]
      [] op = "CheckPullRequestExists" ->
            [res |-> "ok", pr |-> IF IsOpen(key) THEN OpenPRNumber(svc, d) ELSE NoPR]
      [] op = "CheckMergeConflicts" ->
            [res |-> IF hasConflictsOf(pulls[key].mergeable) THEN "true" ELSE "false",
             pr |-> OpenPRNumber(svc, d)]
      [] op = "GetPullRequestChecks" ->
            [res |-> pulls[key].checks, pr |-> OpenPRNumber(svc, d)]
      [] op = "CommitAndPush" ->
            [res |-> IF ForgeBranchExists(key) THEN "err" ELSE "ok", pr |-> NoPR]
      [] op = "CreateMergeRequest" -> [res |-> "ok", pr |-> NewPRNumber(svc, d)]
      [] op \in {"DeletePullRequest", "MergeMergeRequest"} ->
            [res |-> "ok", pr |-> OpenPRNumber(svc, d)]
      [] OTHER -> [res |-> "ok", pr |-> NoPR]

DeleteRef_Mut(branches, key) == branches

\* Git.DeleteRef of refs/heads/<branch>
DeleteRef(branches, key) == branches \ {key}

\* the branches of the remote after a call
BranchesAfter(op, key) ==
    IF op = "CommitAndPush" THEN remoteBranches \cup {key}
    ELSE IF op = "DeleteBranch" THEN DeleteRef(remoteBranches, key)
    ELSE remoteBranches

\* the pull requests of the forge after a call
PullsAfter(op, key, d, latest) ==
    IF op = "CreateMergeRequest"
    THEN MapPut(pulls, key, PullRequest("open", generateMRTitle(d, latest), "clean", "running"))
    ELSE IF op = "DeletePullRequest" THEN [pulls EXCEPT ![key].state = "closed"]
    ELSE IF op = "MergeMergeRequest" THEN [pulls EXCEPT ![key].state = "merged"]
    ELSE pulls

\* a step of Run against the forge: every answer is the forge's, and no call
\* fails but a push to a branch that exists
ForgeStep ==
    /\ pc # "done"
    /\ OrchStep
    /\ IF calls' = calls
       THEN UNCHANGED <<remoteBranches, pulls>>
       ELSE LET c == calls'[Len(calls')]
                key == <<c.repo, branchName'>>
                answer == ForgeAnswer(c.op, key, c.service, c.dep)
            IN  /\ c.res = answer.res
                /\ c.pr = answer.pr
                /\ remoteBranches' = BranchesAfter(c.op, key)
                /\ pulls' = PullsAfter(c.op, key, c.dep, mismatches[<<c.service, c.dep>>].Latest)
    /\ UNCHANGED <<cancelled, cancelledAt, deferred>>
    /\ UNCHANGED <<graphVars, pollVars, raceVars, runVars, fnVars>>

\* the edges whose pull request this run closed as conflicted
DeferredNow ==
    {<<calls[i].service, calls[i].dep>> :
        i \in {j \in 2..Len(calls) : /\ calls[j].op = "DeleteBranch"
                                     /\ calls[j - 1].op = "DeletePullRequest"
                                     /\ calls[j].res = "ok"}}

\* an edge is a mismatch of the next run until its pull request is merged
StillMismatched(e) == ~(KeyOf(e) \in DOMAIN pulls /\ pulls[KeyOf(e)].state = "merged")

\* the next run: nothing but the forge is carried over
NextRun ==
    /\ pc = "done"
    /\ mismatches' = [e \in {x \in DOMAIN mismatches : StillMismatched(x)} |-> mismatches[e]]
    /\ deferred' = DeferredNow
    /\ todoServices' = {}
    /\ todoDeps' = {}
    /\ service' = ""
    /\ dep' = ""
    /\ pc' = "Run"
    /\ branchName' = NoBranch
    /\ dir' = NoDir
    /\ updatedDir' = NoDir
    /\ prNumber' = NoPR
    /\ calls' = <<>>
    /\ runResult' = ""
    /\ UNCHANGED <<deleteConflictedPRs, cancelled, cancelledAt, remoteBranches, pulls>>
    /\ UNCHANGED <<graphVars, pollVars, raceVars, runVars, fnVars>>

\* the checks of an open pull request come to report passed
ChecksPass ==
    /\ \E key \in DOMAIN pulls :
          /\ pulls[key].state = "open"
          /\ pulls[key].checks # "passed"
          /\ pulls' = [pulls EXCEPT ![key].checks = "passed"]
    /\ UNCHANGED <<cancelled, cancelledAt, remoteBranches, deferred>>
    /\ UNCHANGED <<orchVars, graphVars, pollVars, raceVars, runVars, fnVars>>

ForgeNext ==
    \/ ForgeStep
    \/ NextRun
    \/ ChecksPass

SpecForge == ForgeInit /\ [][ForgeNext]_vars

\* the runs for one mismatch
ConvergeInit ==
    /\ ForgeInit
    /\ Cardinality(DOMAIN mismatches) = 1

\* runs follow one another, and checks that have not passed come to pass
SpecConverge ==
    /\ ConvergeInit
    /\ [][ForgeNext]_vars
    /\ WF_vars(ForgeStep \/ NextRun)
    /\ WF_vars(ChecksPass)

---------------------------------------------------------------------------
(* Two runs that update the same dependency of the same service at once *)

Runs == {1, 2}

\* the seconds of the clocks at which the runs commit
MaxSeconds == 2
Seconds == 1..MaxSeconds

\* the commits the default branch can be at when a run clones it
MainHeads == {"m1", "m2"}

NotCommitted == 0

RaceInit ==
    /\ OrchIdle
    /\ GraphIdle
    /\ PollIdle
    /\ EnvIdle
    /\ RunIdle
    /\ FnIdle
    /\ rpc = [p \in Runs |-> "CloneRepo"]
    /\ observed = [p \in Runs |-> ""]
    /\ commitOf = [p \in Runs |-> <<>>]
    /\ remoteRef = <<>>
    /\ pushes = [p \in Runs |-> ""]

\* git clone --depth=1 of the default branch
race_CloneRepo(p) ==
    /\ rpc[p] = "CloneRepo"
    /\ \E h \in MainHeads : commitOf' = [commitOf EXCEPT ![p] = [parent |-> h, second |-> NotCommitted]]
    /\ rpc' = [rpc EXCEPT ![p] = "CheckBranchExists"]
    /\ UNCHANGED <<observed, remoteRef, pushes>>
    /\ UNCHANGED <<orchVars, graphVars, pollVars, envVars, runVars, fnVars>>

\* git ls-remote --heads origin <branch>; updateDependency returns the branch
\* name when it exists
race_CheckBranchExists(p) ==
    /\ rpc[p] = "CheckBranchExists"
    /\ observed' = [observed EXCEPT ![p] = IF remoteRef # <<>> THEN "true" ELSE "false"]
    /\ rpc' = [rpc EXCEPT ![p] = IF remoteRef # <<>> THEN "CheckPullRequestExists" ELSE "UpdateGoDependency"]
    /\ UNCHANGED <<commitOf, remoteRef, pushes>>
    /\ UNCHANGED <<orchVars, graphVars, pollVars, envVars, runVars, fnVars>>

\* go get and go mod tidy in the clone: the same tree in both runs
race_UpdateGoDependency(p) ==
    /\ rpc[p] = "UpdateGoDependency"
    /\ rpc' = [rpc EXCEPT ![p] = "git commit"]
    /\ UNCHANGED <<observed, commitOf, remoteRef, pushes>>
    /\ UNCHANGED <<orchVars, graphVars, pollVars, envVars, runVars, fnVars>>

\* git commit -m <message>: the commit is named by its parent, tree, author,
\* message and the second it is made in; tree, author and message are the same
\* in both runs
gitCommit(p) ==
    /\ rpc[p] = "git commit"
    /\ \E t \in Seconds : commitOf' = [commitOf EXCEPT ![p].second = t]
    /\ rpc' = [rpc EXCEPT ![p] = "git push"]
    /\ UNCHANGED <<observed, remoteRef, pushes>>
    /\ UNCHANGED <<orchVars, graphVars, pollVars, envVars, runVars, fnVars>>

\* the remote takes a push without force of commit c to a ref at r when the ref
\* is absent or already at c; a commit of the runs is never a descendant of
\* another
PushAccepted(r, c) == r = <<>> \/ r = c

\* git push -u origin <branch>; a failure is returned up to Run
gitPush(p) ==
    /\ rpc[p] = "git push"
    /\ IF PushAccepted(remoteRef, commitOf[p])
       THEN /\ remoteRef' = commitOf[p]
            /\ pushes' = [pushes EXCEPT ![p] = "ok"]
            /\ rpc' = [rpc EXCEPT ![p] = "CheckPullRequestExists"]
       ELSE /\ pushes' = [pushes EXCEPT ![p] = "err"]
            /\ rpc' = [rpc EXCEPT ![p] = "aborted"]
            /\ UNCHANGED remoteRef
    /\ UNCHANGED <<observed, commitOf>>
    /\ UNCHANGED <<orchVars, graphVars, pollVars, envVars, runVars, fnVars>>

RaceNext ==
    \E p \in Runs :
        \/ race_CloneRepo(p)
        \/ race_CheckBranchExists(p)
        \/ race_UpdateGoDependency(p)
        \/ gitCommit(p)
        \/ gitPush(p)

SpecRace == RaceInit /\ [][RaceNext]_vars

---------------------------------------------------------------------------
(* The orchestrator on its own: Run after checker.Check has returned *)

Init == OrchInit /\ GraphIdle /\ OthersIdle

Next ==
    \/ Run /\ UNCHANGED <<graphVars, pollVars, envVars, raceVars, runVars, fnVars>>
    \/ fixModules /\ UNCHANGED <<graphVars, pollVars, envVars, raceVars, runVars, fnVars>>
    \/ CloneRepo /\ UNCHANGED <<graphVars, pollVars, envVars, raceVars, runVars, fnVars>>
    \/ CheckBranchExists /\ UNCHANGED <<graphVars, pollVars, envVars, raceVars, runVars, fnVars>>
    \/ UpdateGoDependency /\ UNCHANGED <<graphVars, pollVars, envVars, raceVars, runVars, fnVars>>
    \/ CommitAndPush /\ UNCHANGED <<graphVars, pollVars, envVars, raceVars, runVars, fnVars>>
    \/ CheckPullRequestExists /\ UNCHANGED <<graphVars, pollVars, envVars, raceVars, runVars, fnVars>>
    \/ CreateMergeRequest /\ UNCHANGED <<graphVars, pollVars, envVars, raceVars, runVars, fnVars>>
    \/ CheckMergeConflicts /\ UNCHANGED <<graphVars, pollVars, envVars, raceVars, runVars, fnVars>>
    \/ DeletePullRequest /\ UNCHANGED <<graphVars, pollVars, envVars, raceVars, runVars, fnVars>>
    \/ DeleteBranchOfConflictedPR /\ UNCHANGED <<graphVars, pollVars, envVars, raceVars, runVars, fnVars>>
    \/ GetPullRequestChecks /\ UNCHANGED <<graphVars, pollVars, envVars, raceVars, runVars, fnVars>>
    \/ MergeMergeRequest /\ UNCHANGED <<graphVars, pollVars, envVars, raceVars, runVars, fnVars>>
    \/ DeleteBranchAfterMerge /\ UNCHANGED <<graphVars, pollVars, envVars, raceVars, runVars, fnVars>>

Spec == Init /\ [][Next]_vars

---------------------------------------------------------------------------
(* A run whose context is cancelled *)

\* the steps that are a call taking ctx
CallSteps ==
    {"CloneRepo", "CheckBranchExists", "UpdateGoDependency", "CommitAndPush",
     "CheckPullRequestExists", "CreateMergeRequest", "CheckMergeConflicts",
     "DeletePullRequest", "DeleteBranchOfConflictedPR", "GetPullRequestChecks",
     "MergeMergeRequest", "DeleteBranchAfterMerge"}

\* ctx is cancelled while the call of the current step is in progress
Cancel ==
    /\ ~cancelled
    /\ pc \in CallSteps
    /\ cancelled' = TRUE
    /\ cancelledAt' = pc
    /\ UNCHANGED <<remoteBranches, pulls, deferred>>
    /\ UNCHANGED <<orchVars, graphVars, pollVars, raceVars, runVars, fnVars>>

\* a step of Run: once ctx is cancelled every call returns ctx's error
CancelStep ==
    /\ OrchStep
    /\ (cancelled /\ calls' # calls) => calls'[Len(calls')].res = "err"
    /\ UNCHANGED <<envVars, graphVars, pollVars, raceVars, runVars, fnVars>>

CancelNext ==
    \/ CancelStep
    \/ Cancel

SpecCancel == Init /\ [][CancelNext]_vars

---------------------------------------------------------------------------
(* pkg/depsync/depsync.go: generateBranchName, called on its own *)

\* the characters of the module paths: one that is kept and three that are
\* replaced
NameAlphabet == {"a", "/", ".", " "}

NameVersions == {v1_2_0, v1_10_0}

NameInit ==
    /\ OrchIdle
    /\ GraphIdle
    /\ PollIdle
    /\ EnvIdle
    /\ RaceIdle
    /\ RunIdle
    /\ \E n \in 0..MaxPathLen :
          \E chars \in [1..n -> NameAlphabet] :
             \E v \in NameVersions :
                fnArgs = [modulePath |-> chars, targetVersion |-> v]
    /\ fnResults = <<>>

\* one call of generateBranchName with the same arguments
call_generateBranchName ==
    /\ Len(fnResults) < 2
    /\ fnResults' =
          Append(fnResults, generateBranchNameChars(fnArgs.modulePath, fnArgs.targetVersion))
    /\ UNCHANGED fnArgs
    /\ UNCHANGED <<orchVars, graphVars, pollVars, envVars, raceVars, runVars>>

SpecName == NameInit /\ [][call_generateBranchName]_vars

---------------------------------------------------------------------------
(* pkg/depsync/depsync.go: generateBranchName for two updates of one consumer *)

\* the longest module path of the two updates
MaxPairLen == 3

\* the characters of their module paths: one that is kept and two that are
\* replaced
PairAlphabet == {"a", "/", "."}

PairArgs ==
    UNION {{[modulePath |-> chars, targetVersion |-> v] :
               chars \in [1..n -> PairAlphabet], v \in NameVersions} : n \in 0..MaxPairLen}

\* two updates that differ in the module path or in the target version
PairInit ==
    /\ OrchIdle
    /\ GraphIdle
    /\ PollIdle
    /\ EnvIdle
    /\ RaceIdle
    /\ RunIdle
    /\ \E a \in PairArgs : \E b \in PairArgs \ {a} : fnArgs = <<a, b>>
    /\ fnResults = <<>>

\* updateDependency of the next of the two: branchName := generateBranchName(dep, mismatch.Latest)
pair_generateBranchName ==
    /\ Len(fnResults) < Len(fnArgs)
    /\ LET a == fnArgs[Len(fnResults) + 1]
       IN  fnResults' = Append(fnResults, generateBranchNameChars(a.modulePath, a.targetVersion))
    /\ UNCHANGED fnArgs
    /\ UNCHANGED <<orchVars, graphVars, pollVars, envVars, raceVars, runVars>>

SpecPair == PairInit /\ [][pair_generateBranchName]_vars

---------------------------------------------------------------------------
(* pkg/adapters/github/client.go: GetPullRequestChecks and determineCheckStatus *)

\* the longest list of check runs of a head commit
MaxCheckRuns == 2

\* the Conclusion of a check run that has none yet: a nil pointer
NilConclusion == "<nil>"

\* the check runs the forge reports: the unfinished ones have no conclusion
\* yet, a finished one carries one of the forge's conclusions
CheckRunKinds ==
    {[Status |-> s, Conclusion |-> NilConclusion] : s \in {"queued", "in_progress", "pending"}}
    \cup {[Status |-> "completed", Conclusion |-> c] :
             c \in {"success", "failure", "cancelled", "timed_out",
                    "action_required", "neutral", "skipped", "stale"}}

\* mutant: only a check run in progress counts as running, a queued one does not
AnyRunning_Mut(checkRuns) ==
    \E i \in 1..Len(checkRuns) : checkRuns[i].Status \in {"in_progress"}

\* the first loop of determineCheckStatus
AnyRunning(checkRuns) ==
    \E i \in 1..Len(checkRuns) : checkRuns[i].Status \in {"in_progress", "queued"}

\* the second loop of determineCheckStatus, from the i-th check run on: each
\* turn reads *check.Conclusion before the next check run is looked at
RECURSIVE AnyFailedFrom(_, _)
AnyFailedFrom(checkRuns, i) ==
    IF i > Len(checkRuns) THEN "passed"
    ELSE IF checkRuns[i].Conclusion = NilConclusion THEN "panic"
    ELSE IF checkRuns[i].Conclusion \in {"failure", "cancelled", "timed_out"} THEN "failed"
    ELSE AnyFailedFrom(checkRuns, i + 1)

determineCheckStatus(checkRuns) ==
    IF Len(checkRuns) = 0 THEN "running"
    ELSE IF AnyRunning(checkRuns) THEN "running"
    ELSE AnyFailedFrom(checkRuns, 1)

\* how the two requests of GetPullRequestChecks end
ChecksOutcomes == {"ok", "failed to get pull request", "failed to get check runs"}

ChecksInit ==
    /\ OrchIdle
    /\ GraphIdle
    /\ PollIdle
    /\ EnvIdle
    /\ RaceIdle
    /\ RunIdle
    /\ \E url \in MergeRepoURLs :
          \E n \in 0..MaxCheckRuns :
             \E runs \in [1..n -> CheckRunKinds] :
                fnArgs = [RepoURL |-> url, CheckRuns |-> runs]
    /\ fnResults = <<>>

CheckStatusOf(status, err) == [Status |-> status, err |-> err]

client_GetPullRequestChecks ==
    /\ Len(fnResults) < 1
    /\ \E outcome \in ChecksOutcomes :
          fnResults' =
             Append(fnResults,
                    IF extractOwnerAndRepo(fnArgs.RepoURL).err # ""
                    THEN CheckStatusOf("", extractOwnerAndRepo(fnArgs.RepoURL).err)
                    ELSE IF outcome # "ok"
                    THEN CheckStatusOf("", outcome)
                    ELSE CheckStatusOf(determineCheckStatus(fnArgs.CheckRuns), ""))
    /\ UNCHANGED fnArgs
    /\ UNCHANGED <<orchVars, graphVars, pollVars, envVars, raceVars, runVars>>

SpecChecks == ChecksInit /\ [][client_GetPullRequestChecks]_vars

---------------------------------------------------------------------------
(* pkg/depsync/depsync.go: Run, from the configuration to fixModules *)

\* what config.Repositories may hold
Configurations == {<<>>, <<pA, pB, pC>>}

\* the ways one turn of the loop of fetchModules ends
FetchResults ==
    {"ok", "error fetching go.mod", "go.mod not found in repository", "could not parse module path"}

RepoModule(url) == [RepoURL |-> url, GoModContent |-> "go.mod"]

Stage(op, arg, res) == [op |-> op, arg |-> arg, res |-> res]

\* the pins and the latest versions of the graphs Run is given
RunPinMaps ==
    {pins \in [OrchEdges -> {<<>>, v1_0_0, v1_2_0, notAVersion}] :
        /\ pins[<<pA, pB>>] # <<>>
        /\ pins[<<pA, pC>>] = <<>>
        /\ pins[<<pB, pC>>] \in {v1_0_0, v1_2_0}}

RunLatestMaps ==
    {lats \in [ModulePaths -> {<<>>, v1_2_0}] : lats[pA] = <<>> /\ lats[pC] # <<>>}

NextStage_Mut(stage, failed) ==
    CASE stage = "fetchModules" -> "BuildGraph"
      [] stage = "BuildGraph" -> "DetectAndSetCurrentVersions"
      [] stage = "DetectAndSetCurrentVersions" -> "Check"
      [] stage = "Check" -> "checked"

\* Run returns the error of a stage, else goes on to the next one
NextStage(stage, failed) ==
    IF failed THEN "returned"
    ELSE CASE stage = "fetchModules" -> "BuildGraph"
           [] stage = "BuildGraph" -> "DetectAndSetCurrentVersions"
           [] stage = "DetectAndSetCurrentVersions" -> "Check"
           [] stage = "Check" -> "checked"

\* the stage ended: Run goes to n, returning err when n is its return
GoTo(n, err) ==
    /\ gpc' = n
    /\ IF n = "returned"
       THEN pc' = "done" /\ runResult' = err
       ELSE IF n = "checked"
       THEN pc' = "Run" /\ UNCHANGED runResult
       ELSE UNCHANGED <<pc, runResult>>

RunInit ==
    /\ PollIdle
    /\ EnvIdle
    /\ RaceIdle
    /\ deleteConflictedPRs \in BOOLEAN
    /\ mismatches = <<>>
    /\ todoServices = {}
    /\ todoDeps = {}
    /\ service = ""
    /\ dep = ""
    /\ pc = "idle"
    /\ branchName = NoBranch
    /\ dir = NoDir
    /\ updatedDir = NoDir
    /\ prNumber = NoPR
    /\ calls = <<>>
    /\ runResult = ""
    /\ modules = <<>>
    /\ graph = <<>>
    /\ heap = <<>>
    /\ gpc = "Run"
    /\ graphErr = ""
    /\ todoDetect = {}
    /\ lastService = ""
    /\ lastTags = <<>>
    /\ FnIdle
    /\ repositories \in Configurations
    /\ stages = <<>>
    /\ errArgs = <<>>

\* Run: if len(c.config.Repositories) == 0
run_Configuration ==
    /\ gpc = "Run"
    /\ IF Len(repositories) = 0
       THEN GoTo("returned", "no repositories configured")
       ELSE GoTo("fetchModules", "")
    /\ UNCHANGED <<deleteConflictedPRs, mismatches, todoServices, todoDeps, service, dep,
                   branchName, dir, updatedDir, prNumber, calls>>
    /\ UNCHANGED <<modules, graph, heap, graphErr, todoDetect, lastService, lastTags>>
    /\ UNCHANGED <<pollVars, envVars, raceVars, runVars, fnVars>>

\* fetchModules: one turn of the loop over config.Repositories
run_fetchModules ==
    /\ gpc = "fetchModules"
    /\ LET url == repositories[Len(stages) + 1]
       IN  \E res \in FetchResults :
              /\ stages' = Append(stages, Stage("Fetch", url, res))
              /\ modules' = IF res = "ok" THEN MapPut(modules, url, RepoModule(url)) ELSE modules
              /\ IF res = "ok" /\ Len(stages) + 1 < Len(repositories)
                 THEN GoTo("fetchModules", "")
                 ELSE GoTo(NextStage("fetchModules", res # "ok"), res)
    /\ UNCHANGED <<deleteConflictedPRs, mismatches, todoServices, todoDeps, service, dep,
                   branchName, dir, updatedDir, prNumber, calls>>
    /\ UNCHANGED <<graph, heap, graphErr, todoDetect, lastService, lastTags>>
    /\ UNCHANGED <<pollVars, envVars, raceVars, repositories, errArgs, fnVars>>

NoLatest == [p \in ModulePaths |-> <<>>]

\* Run: c.graphBuilder.BuildGraph(modules)
run_BuildGraph ==
    /\ gpc = "BuildGraph"
    /\ \/ /\ stages' = Append(stages, Stage("BuildGraph", DOMAIN modules, "ok"))
          /\ graph' = [p \in DOMAIN modules |-> Addr(p)]
          /\ \E pins \in RunPinMaps : heap' = CheckHeap(pins, NoLatest)
          /\ GoTo(NextStage("BuildGraph", FALSE), "")
       \/ /\ stages' = Append(stages, Stage("BuildGraph", DOMAIN modules, "err"))
          /\ UNCHANGED <<graph, heap>>
          /\ GoTo(NextStage("BuildGraph", TRUE), "failed to build dependency graph")
    /\ UNCHANGED <<deleteConflictedPRs, mismatches, todoServices, todoDeps, service, dep,
                   branchName, dir, updatedDir, prNumber, calls>>
    /\ UNCHANGED <<modules, graphErr, todoDetect, lastService, lastTags>>
    /\ UNCHANGED <<pollVars, envVars, raceVars, repositories, errArgs, fnVars>>

\* Run: c.versionDetector.DetectAndSetCurrentVersions(ctx, c.client, graph)
run_DetectAndSetCurrentVersions ==
    /\ gpc = "DetectAndSetCurrentVersions"
    /\ \/ /\ stages' = Append(stages, Stage("DetectAndSetCurrentVersions", DOMAIN graph, "ok"))
          /\ \E lats \in RunLatestMaps :
                heap' = [a \in DOMAIN heap |->
                            [heap[a] EXCEPT !.LatestVersion = lats[heap[a].ModulePath]]]
          /\ GoTo(NextStage("DetectAndSetCurrentVersions", FALSE), "")
       \/ /\ stages' = Append(stages, Stage("DetectAndSetCurrentVersions", DOMAIN graph, "err"))
          /\ UNCHANGED heap
          /\ GoTo(NextStage("DetectAndSetCurrentVersions", TRUE), "failed to detect versions")
    /\ UNCHANGED <<deleteConflictedPRs, mismatches, todoServices, todoDeps, service, dep,
                   branchName, dir, updatedDir, prNumber, calls>>
    /\ UNCHANGED <<modules, graph, graphErr, todoDetect, lastService, lastTags>>
    /\ UNCHANGED <<pollVars, envVars, raceVars, repositories, errArgs, fnVars>>

\* Run: c.checker.Check(graph)
run_Check ==
    /\ gpc = "Check"
    /\ IF UnparsableEdges = {}
       THEN /\ stages' = Append(stages, Stage("Check", DOMAIN graph, "ok"))
            /\ mismatches' = CheckResult
            /\ graphErr' = ""
            /\ errArgs' = <<>>
            /\ GoTo(NextStage("Check", FALSE), "")
       ELSE \E e \in UnparsableEdges :
               /\ stages' = Append(stages, Stage("Check", DOMAIN graph, "err"))
               /\ mismatches' = <<>>
               /\ graphErr' = CheckErrorFormat(e)
               /\ errArgs' = CheckErrorOperands(e)
               /\ GoTo(NextStage("Check", TRUE), "failed to check for inconsistencies")
    /\ UNCHANGED <<deleteConflictedPRs, todoServices, todoDeps, service, dep,
                   branchName, dir, updatedDir, prNumber, calls>>
    /\ UNCHANGED <<modules, graph, heap, todoDetect, lastService, lastTags>>
    /\ UNCHANGED <<pollVars, envVars, raceVars, repositories, fnVars>>

\* Run from len(mismatches) == 0 on, and fixModules
run_fixModules ==
    /\ gpc = "checked"
    /\ OrchStep
    /\ UNCHANGED <<graphVars, pollVars, envVars, raceVars, runVars, fnVars>>

RunNext ==
    \/ run_Configuration
    \/ run_fetchModules
    \/ run_BuildGraph
    \/ run_DetectAndSetCurrentVersions
    \/ run_Check
    \/ run_fixModules

SpecRun == RunInit /\ [][RunNext]_vars

---------------------------------------------------------------------------
(* pkg/depsync/depsync.go: Run over the graph the version detector writes *)

\* Run: the return of DetectAndSetCurrentVersions
run_detected ==
    /\ gpc = "detected"
    /\ stages' = Append(stages, Stage("DetectAndSetCurrentVersions", DOMAIN graph,
                                      IF graphErr = "" THEN "ok" ELSE "err"))
    /\ GoTo(NextStage("DetectAndSetCurrentVersions", graphErr # ""),
            IF graphErr = "" THEN "" ELSE "failed to detect versions")
    /\ UNCHANGED <<deleteConflictedPRs, mismatches, todoServices, todoDeps, service, dep,
                   branchName, dir, updatedDir, prNumber, calls>>
    /\ UNCHANGED <<modules, graph, heap, graphErr, todoDetect, lastService, lastTags>>
    /\ UNCHANGED <<pollVars, envVars, raceVars, repositories, errArgs, fnVars>>

GraphRunNext ==
    \/ DetectAndSetCurrentVersions
    \/ run_detected
    \/ run_Check
    \/ run_fixModules

SpecGraphRun == DetectInit /\ [][GraphRunNext]_vars

---------------------------------------------------------------------------
(* The orchestrator's claims, stated over the log of collaborator calls *)

CallIdx == 1..Len(calls)

SameEdge(i, j) == calls[i].service = calls[j].service /\ calls[i].dep = calls[j].dep

\* the pipeline of the current mismatch is the one call i belongs to
Current(i) == calls[i].service = service /\ calls[i].dep = dep

\* the branch deletion of the conflict path follows DeletePullRequest, the one of
\* the merge path follows MergeMergeRequest
IsConflictDeleteBranch(i) ==
    calls[i].op = "DeleteBranch" /\ i > 1 /\ calls[i - 1].op = "DeletePullRequest"
IsMergeDeleteBranch(i) ==
    calls[i].op = "DeleteBranch" /\ i > 1 /\ calls[i - 1].op = "MergeMergeRequest"

Processed(e) == \E i \in CallIdx : calls[i].service = e[1] /\ calls[i].dep = e[2]

C2_CreatedPRIsChecked ==
    \A i \in CallIdx :
        (calls[i].op = "CreateMergeRequest" /\ calls[i].res = "ok") =>
            IF i < Len(calls)
            THEN /\ calls[i + 1].op = "GetPullRequestChecks"
                 /\ SameEdge(i, i + 1)
                 /\ calls[i + 1].pr = calls[i].pr
            ELSE /\ pc = "GetPullRequestChecks"
                 /\ Current(i)
                 /\ prNumber = calls[i].pr

FatalFailure(i) ==
    /\ calls[i].res = "err"
    /\ \/ calls[i].op \in {"CloneRepo", "CheckBranchExists", "UpdateGoDependency",
                           "CommitAndPush", "CheckPullRequestExists", "CreateMergeRequest",
                           "DeletePullRequest"}
       \/ IsConflictDeleteBranch(i)

\* C4: a failure of CloneRepo, CheckBranchExists, UpdateGoDependency,
\* CommitAndPush, CheckPullRequestExists, CreateMergeRequest or of the conflict
\* deletion makes Run return the error wrapped in "failed to fix modules", and it
\* is the last collaborator call of the run.
C4_FailFast ==
    \A i \in CallIdx :
        FatalFailure(i) =>
            /\ i = Len(calls)
            /\ pc = "done"
            /\ runResult = "failed to fix modules"

C4_Witness ==
    \E i \in CallIdx :
        /\ FatalFailure(i)
        /\ calls[i].op = "CommitAndPush"
        /\ runResult = "failed to fix modules"
        /\ \E e \in DOMAIN mismatches : ~Processed(e)

\* the failures the orchestrator absorbs
NonFatalFailure(i) ==
    /\ calls[i].res = "err"
    /\ \/ calls[i].op \in {"GetPullRequestChecks", "MergeMergeRequest"}
       \/ IsMergeDeleteBranch(i)

\* C5: a failure of GetPullRequestChecks, of MergeMergeRequest or of the
\* DeleteBranch after a merge never makes Run return an error and the loop goes
\* on with the next mismatch; when these are the only failures of a run, Run
\* returns nil with every mismatch processed.
C5_NonFatalBoundary ==
    /\ \A i \in CallIdx :
          NonFatalFailure(i) =>
              IF i < Len(calls)
              THEN calls[i + 1].op = "CloneRepo" /\ ~SameEdge(i, i + 1)
              ELSE \/ pc = "fixModules" /\ runResult = ""
                   \/ pc = "CloneRepo" /\ runResult = "" /\ ~Current(i)
                   \/ /\ pc = "done"
                      /\ runResult = "nil"
                      /\ \A e \in DOMAIN mismatches : Processed(e)
    /\ (pc = "done" /\ \A i \in CallIdx : calls[i].res = "err" => NonFatalFailure(i)) =>
          /\ runResult = "nil"
          /\ \A e \in DOMAIN mismatches : Processed(e)

C5_Witness ==
    /\ pc = "done"
    /\ runResult = "nil"
    /\ \E i \in CallIdx : calls[i].op = "GetPullRequestChecks" /\ NonFatalFailure(i) /\ i < Len(calls)
    /\ \E i \in CallIdx : calls[i].op = "MergeMergeRequest" /\ NonFatalFailure(i)

\* C6: MergeMergeRequest is invoked for a pull request only right after
\* GetPullRequestChecks returned passed for that pull request in the same
\* pipeline; after a status of running or failed, or a failed status query,
\* neither a merge nor a branch deletion happens for that mismatch in the run.
C6_ChecksNeverBypassed ==
    /\ \A i \in CallIdx :
          calls[i].op = "MergeMergeRequest" =>
              /\ i > 1
              /\ calls[i - 1].op = "GetPullRequestChecks"
              /\ calls[i - 1].res = "passed"
              /\ SameEdge(i - 1, i)
              /\ calls[i - 1].pr = calls[i].pr
              /\ calls[i].pr # NoPR
    /\ \A i \in CallIdx :
          (calls[i].op = "GetPullRequestChecks" /\ calls[i].res # "passed") =>
              /\ \A j \in CallIdx :
                    SameEdge(i, j) => calls[j].op \notin {"MergeMergeRequest", "DeleteBranch"}
              /\ Current(i) => pc \notin {"MergeMergeRequest", "DeleteBranchAfterMerge"}

C6_Witness ==
    /\ \E i \in CallIdx : calls[i].op = "MergeMergeRequest" /\ calls[i].res = "ok"
    /\ \E i \in CallIdx : calls[i].op = "GetPullRequestChecks" /\ calls[i].res \in {"running", "failed"}

---------------------------------------------------------------------------
(* The claims of the graph pipeline *)

\* the place of a version in the order of semantic versioning, written down
\* by hand for the versions of the checker's graphs
SemverRank(v) ==
    CASE v = v1_0_0      -> 1
      [] v = v1_2_0      -> 2
      [] v = v1_10_0_rc1 -> 3
      [] v = v1_10_0     -> 4
      [] v = v02_0_0     -> 5
      [] OTHER           -> 0

PinnedBy(s, d) ==
    IF d \in DOMAIN heap[graph[s]].Dependencies
    THEN heap[graph[s]].Dependencies[d].CurrentVersion
    ELSE <<>>

\* C7: when Check returns without error, it reports a mismatch for the edge
\* (S, D) exactly when D's LatestVersion is non-empty and the version S pins is
\* strictly less than it in semantic-version order; the entry carries the pinned
\* string as Actual and D's LatestVersion as Latest.
C7_MismatchLaw ==
    (gpc = "checked" /\ graphErr = "") =>
        \A s \in DOMAIN graph, d \in DOMAIN graph :
            LET isEdge == d \in DOMAIN heap[graph[s]].Dependencies
                latest == heap[graph[d]].LatestVersion
                lags == /\ isEdge
                        /\ latest # <<>>
                        /\ SemverRank(PinnedBy(s, d)) < SemverRank(latest)
            IN  /\ DOMAIN mismatches \subseteq (DOMAIN graph) \X (DOMAIN graph)
                /\ (<<s, d>> \in DOMAIN mismatches) <=> lags
                /\ lags => /\ mismatches[<<s, d>>].Actual = PinnedBy(s, d)
                           /\ mismatches[<<s, d>>].Latest = latest

\* Check has returned: one edge lags (v1.2.0 against v1.10.0, which a
\* comparison of the strings would order the other way), one edge pins the
\* latest version itself and one edge's dependency has no latest version
C7_Witness ==
    /\ gpc = "checked"
    /\ graphErr = ""
    /\ \E s \in DOMAIN graph, d \in DOMAIN graph :
          /\ <<s, d>> \in DOMAIN mismatches
          /\ mismatches[<<s, d>>] = [Actual |-> v1_2_0, Latest |-> v1_10_0]
    /\ \E s \in DOMAIN graph, d \in DOMAIN graph :
          /\ PinnedBy(s, d) # <<>>
          /\ PinnedBy(s, d) = heap[graph[d]].LatestVersion
          /\ <<s, d>> \notin DOMAIN mismatches
    /\ \E s \in DOMAIN graph, d \in DOMAIN graph :
          /\ PinnedBy(s, d) # <<>>
          /\ heap[graph[d]].LatestVersion = <<>>

\* the versions the manifest of a pins for b, in file order
PinsOf(a, b) ==
    LET content == modules[a].GoModContent
        idx == {i \in 1..Len(content) : content[i].Verb = "require" /\ content[i].Path = b}
    IN  [versions |-> {content[i].Version : i \in idx},
         last |-> IF idx = {} THEN <<>>
                  ELSE content[CHOOSE i \in idx : \A j \in idx : j <= i].Version]

\* C8: in a graph BuildGraph returns, every module path has its own node, and
\* for in-scope A requiring in-scope B the edge graph[A].Dependencies[B] points
\* to the node graph[B] itself and carries the version A's manifest pins.
C8_SharedInstance ==
    (gpc = "built" /\ graphErr = "") =>
        /\ \A a \in DOMAIN graph : heap[graph[a]].ModulePath = a
        /\ \A a \in DOMAIN graph, b \in DOMAIN graph : graph[a] = graph[b] => a = b
        /\ DOMAIN heap = {graph[a] : a \in DOMAIN graph}
        /\ \A a \in DOMAIN modules, b \in DOMAIN modules :
              PinsOf(a, b).versions # {} =>
                 /\ a \in DOMAIN graph /\ b \in DOMAIN graph
                 /\ b \in DOMAIN heap[graph[a]].Dependencies
                 /\ heap[graph[a]].Dependencies[b].Service = graph[b]
                 /\ heap[graph[a]].Dependencies[b].CurrentVersion = PinsOf(a, b).last

\* a graph has been built in which two services require a third at different
\* versions
C8_Witness ==
    /\ gpc = "built"
    /\ graphErr = ""
    /\ \E a \in DOMAIN graph, b \in DOMAIN graph, c \in DOMAIN graph :
          /\ a # b /\ b # c /\ a # c
          /\ PinsOf(a, b).versions # {}
          /\ PinsOf(c, b).versions # {}
          /\ PinsOf(a, b).last # PinsOf(c, b).last
          /\ heap[graph[a]].Dependencies[b].Service = heap[graph[c]].Dependencies[b].Service

\* a manifest of the input holds a line that is no directive
HasBadLine(a) ==
    \E i \in 1..Len(modules[a].GoModContent) :
        modules[a].GoModContent[i].Verb \notin {"module", "require"}

\* C9: the keys of the graph BuildGraph returns are the module paths of its
\* input; no node has an edge to a path that is not such a key, and BuildGraph
\* fails only for a manifest that does not parse, never for a requirement on a
\* path outside the input.
C9_ExternalExclusion ==
    gpc = "built" =>
        /\ graphErr = "" =>
              /\ DOMAIN graph = DOMAIN modules
              /\ \A a \in DOMAIN graph :
                    \A d \in DOMAIN heap[graph[a]].Dependencies :
                        d \in DOMAIN modules /\ PinsOf(a, d).versions # {}
        /\ graphErr # "" => \E a \in DOMAIN modules : HasBadLine(a)

\* a graph has been built from an input with a requirement on a path that is
\* not a key of the input
C9_Witness ==
    /\ gpc = "built"
    /\ graphErr = ""
    /\ \E a \in DOMAIN modules, d \in ModulePaths \ DOMAIN modules :
          PinsOf(a, d).versions # {}

\* a tag name of the shape vMAJOR.MINOR.PATCH, each a run of digits
HasShape(name) ==
    /\ name # NilName
    /\ name # <<>>
    /\ name[1] = "v"
    /\ Len(SplitDots(Tail(name))) = 3
    /\ \A k \in 1..3 : AllDigits(SplitDots(Tail(name))[k])

\* the same, no number with a leading zero: a semantic version
IsSemver(name) ==
    HasShape(name) /\ \A k \in 1..3 : ~isBadNum(SplitDots(Tail(name))[k])

\* numeric comparison of MAJOR, then MINOR, then PATCH
NumericLeq(x, y) ==
    LET a == [k \in 1..3 |-> ParseUint(SplitDots(Tail(x))[k])]
        b == [k \in 1..3 |-> ParseUint(SplitDots(Tail(y))[k])]
    IN  \/ a[1] < b[1]
        \/ a[1] = b[1] /\ a[2] < b[2]
        \/ a[1] = b[1] /\ a[2] = b[2] /\ a[3] <= b[3]

\* v is a numeric maximum of the candidates, or empty when there are none
Selects(candidates, v) ==
    IF candidates = {} THEN v = <<>>
    ELSE v \in candidates /\ \A t \in candidates : NumericLeq(t, v)

\* C10: after the tags of a service have been listed, its LatestVersion is the
\* numeric maximum of the tags of the shape vMAJOR.MINOR.PATCH, and empty when
\* no tag qualifies.  The statement is read both ways: tags with a leading
\* zero in a number count as of that shape, or they count as non-semver tags.
C10_VersionSelection ==
    (lastService # "" /\ graphErr = "") =>
        LET names == {lastTags[i] : i \in 1..Len(lastTags)}
            v == heap[graph[lastService]].LatestVersion
        IN  \/ Selects({t \in names : HasShape(t)}, v)
            \/ Selects({t \in names : IsSemver(t)}, v)

---------------------------------------------------------------------------
(* The claims of CheckMergeConflicts *)

LastPoll == polls[Len(polls)]

\* C11: when CheckMergeConflicts returns after the forge reported a state, it
\* reports a conflict only for "conflicting"; for clean, unstable, dirty and
\* blocked it returns no conflict and no error; for any state other than these
\* five and unknown, the empty state included, it returns the unrecognized-state
\* error and no conflict.
C11_MergeabilityMapping ==
    (mpc = "returned" /\ polls # <<>> /\ LastPoll # GetFailed) =>
        /\ mresult.hasConflicts => (LastPoll = "conflicting" /\ mresult.err = "")
        /\ LastPoll = "conflicting" => mresult.hasConflicts
        /\ LastPoll \in {"clean", "unstable", "dirty", "blocked"} =>
              (~mresult.hasConflicts /\ mresult.err = "")
        /\ LastPoll \notin {"clean", "conflicting", "unstable", "dirty", "blocked", "unknown"} =>
              (~mresult.hasConflicts /\ mresult.err = "unknown mergeable state")

\* CheckMergeConflicts has returned no conflict for a pull request the forge
\* called dirty, after a first poll that said unknown
C11_Witness ==
    /\ mpc = "returned"
    /\ polls = <<"unknown", "dirty">>
    /\ mresult = Returned(FALSE, "")

\* C12: CheckMergeConflicts never polls more than 5 times; when every poll
\* said unknown and it has returned, it has polled exactly 5 times and returned
\* the not-yet-computed error without a conflict flag; while it has not
\* returned, fewer than 5 polls were made, so that it returns after the fifth.
C12_BoundedPolling ==
    /\ Len(polls) <= 5
    /\ (mpc \in {"Get", "Sleep"}) => (Len(polls) = attempt + (IF mpc = "Sleep" THEN 1 ELSE 0) /\ attempt < 5)
    /\ (mpc = "returned" /\ polls # <<>> /\ \A i \in 1..Len(polls) : polls[i] = "unknown") =>
          /\ Len(polls) = 5
          /\ mresult = Returned(FALSE, "mergeability not yet computed")

\* five polls said unknown, with waits of 2, 4, 8 and 16 seconds between them,
\* and the call has returned
C12_Witness ==
    /\ mpc = "returned"
    /\ polls = <<"unknown", "unknown", "unknown", "unknown", "unknown">>
    /\ sleeps = <<2, 4, 8, 16>>
    /\ mresult.err = "mergeability not yet computed"

\* C32: the result of CheckMergeConflicts is decided by the first poll that
\* does not say unknown: no poll follows it, so every poll before the last one
\* said unknown, and the result is that poll's; a failed query of the pull
\* request ends the call at once with an error, with no wait after it
C32_FirstDecisivePoll ==
    /\ \A i \in 1..(Len(polls) - 1) : polls[i] = "unknown"
    /\ (polls # <<>> /\ LastPoll # "unknown") =>
          /\ mpc = "returned"
          /\ Len(sleeps) = Len(polls) - 1
          /\ LastPoll = GetFailed => mresult = Returned(FALSE, "failed to get pull request")
          /\ LastPoll \in {"clean", "unstable", "dirty", "blocked"} => mresult = Returned(FALSE, "")
          /\ LastPoll = "conflicting" => mresult = Returned(TRUE, "")
    /\ mpc = "Sleep" => (polls # <<>> /\ LastPoll = "unknown")

\* the query failed on the third poll, after two waits
C32_Witness ==
    /\ mpc = "returned"
    /\ polls = <<"unknown", "unknown", GetFailed>>
    /\ sleeps = <<2, 4>>
    /\ mresult = Returned(FALSE, "failed to get pull request")

RECURSIVE SumOf(_)
SumOf(q) == IF q = <<>> THEN 0 ELSE Head(q) + SumOf(Tail(q))

\* C29: the k-th wait is 2 * 2^(k-1) seconds and follows a k-th poll that said
\* unknown, for k = 1..4 only (30 seconds in all at most); a poll that returned
\* a decisive state or an error, and the fifth poll, are followed by no wait.
C29_BackoffSchedule ==
    /\ Len(sleeps) <= 4
    /\ Len(sleeps) <= Len(polls)
    /\ \A k \in 1..Len(sleeps) :
          /\ sleeps[k] = 2 * 2^(k - 1)
          /\ polls[k] = "unknown"
    /\ SumOf(sleeps) <= 30
    /\ \A k \in 1..Len(polls) :
          (polls[k] # "unknown" \/ k = 5) => Len(sleeps) < k
    /\ (mpc = "returned" /\ polls # <<>>) => Len(sleeps) = Len(polls) - 1
    /\ mpc = "Sleep" => Len(sleeps) = Len(polls)

\* the call has returned a decisive state at the fourth poll, after waits of
\* 2, 4 and 8 seconds
C29_Witness ==
    /\ mpc = "returned"
    /\ polls = <<"unknown", "unknown", "unknown", "clean">>
    /\ sleeps = <<2, 4, 8>>

---------------------------------------------------------------------------
(* More claims of the orchestrator *)

\* C13: with DeleteConflictedPRs false, CheckMergeConflicts, DeletePullRequest
\* and the DeleteBranch of the conflict path are never invoked; when
\* CheckPullRequestExists finds a pull request the next call is
\* GetPullRequestChecks for it, a passed status is followed by MergeMergeRequest
\* and a successful merge by DeleteBranch of the update branch.
C13_FeatureDisabled ==
    ~deleteConflictedPRs =>
        /\ pc \notin {"CheckMergeConflicts", "DeletePullRequest", "DeleteBranchOfConflictedPR"}
        /\ \A i \in CallIdx :
              /\ calls[i].op \notin {"CheckMergeConflicts", "DeletePullRequest"}
              /\ ~IsConflictDeleteBranch(i)
        /\ \A i \in CallIdx :
              (calls[i].op = "CheckPullRequestExists" /\ calls[i].res = "ok" /\ calls[i].pr # NoPR) =>
                  /\ IF i < Len(calls)
                     THEN /\ calls[i + 1].op = "GetPullRequestChecks"
                          /\ SameEdge(i, i + 1)
                          /\ calls[i + 1].pr = calls[i].pr
                     ELSE pc = "GetPullRequestChecks" /\ Current(i) /\ prNumber = calls[i].pr
                  /\ (i < Len(calls) /\ calls[i + 1].res = "passed") =>
                        IF i + 1 < Len(calls)
                        THEN /\ calls[i + 2].op = "MergeMergeRequest"
                             /\ calls[i + 2].pr = calls[i].pr
                        ELSE pc = "MergeMergeRequest" /\ prNumber = calls[i].pr
                  /\ (i + 1 < Len(calls) /\ calls[i + 1].res = "passed" /\ calls[i + 2].res = "ok") =>
                        IF i + 2 < Len(calls)
                        THEN /\ calls[i + 3].op = "DeleteBranch"
                             /\ calls[i + 3].branch = calls[i].branch
                        ELSE pc = "DeleteBranchAfterMerge" /\ branchName = calls[i].branch

\* the feature is off, a pull request was found, its checks had passed, it was
\* merged and its branch deleted
C13_Witness ==
    /\ ~deleteConflictedPRs
    /\ pc = "done"
    /\ \E i \in CallIdx :
          /\ i + 3 <= Len(calls)
          /\ calls[i].op = "CheckPullRequestExists" /\ calls[i].pr # NoPR
          /\ calls[i + 1].op = "GetPullRequestChecks" /\ calls[i + 1].res = "passed"
          /\ calls[i + 2].op = "MergeMergeRequest" /\ calls[i + 2].res = "ok"
          /\ calls[i + 3].op = "DeleteBranch" /\ calls[i + 3].res = "ok"

\* the pull request of a conflict was closed and its branch deleted
IsDeferral(i) == IsConflictDeleteBranch(i) /\ calls[i].res = "ok"

\* the failures that end a run
EndsRun(i) ==
    /\ calls[i].res = "err"
    /\ ~NonFatalFailure(i)

\* C15: once the pull request of a conflict is closed and its branch deleted,
\* CreateMergeRequest is not invoked for that mismatch in the run, the next call
\* is the CloneRepo of another mismatch (or the run ends with nil), and a run
\* with such a deferral and no fatal failure returns nil.
C15_DeferralIsTerminal ==
    \A i \in CallIdx :
        IsDeferral(i) =>
            /\ \A j \in CallIdx : SameEdge(i, j) => calls[j].op # "CreateMergeRequest"
            /\ IF i < Len(calls)
               THEN calls[i + 1].op = "CloneRepo" /\ ~SameEdge(i, i + 1)
               ELSE \/ pc = "fixModules" /\ runResult = ""
                    \/ pc = "CloneRepo" /\ runResult = "" /\ ~Current(i)
                    \/ /\ pc = "done"
                       /\ runResult = "nil"
                       /\ \A e \in DOMAIN mismatches : Processed(e)
            /\ (pc = "done" /\ \A j \in CallIdx : ~EndsRun(j)) =>
                  /\ runResult = "nil"
                  /\ \A e \in DOMAIN mismatches : Processed(e)

\* a run ended with nil after a deferral that was followed by the pipeline of
\* another mismatch
C15_Witness ==
    /\ pc = "done"
    /\ runResult = "nil"
    /\ \E i \in CallIdx :
          /\ IsDeferral(i)
          /\ i < Len(calls)
          /\ calls[i + 1].op = "CloneRepo"

\* the failures of the conflict handling
ConflictHandlingFailure(i) ==
    /\ calls[i].res = "err"
    /\ \/ calls[i].op \in {"CheckMergeConflicts", "DeletePullRequest"}
       \/ IsConflictDeleteBranch(i)

---------------------------------------------------------------------------
(* Claims of the runs against the forge *)

\* C14: the conflict-deletion path is applied only to pull requests whose title
\* starts with the shared prefix: a pull request of another title is never
\* closed, and while it is open its branch is never deleted.
C14_OwnPRGate ==
    \A key \in DOMAIN pulls :
        ~IsOwnTitle(pulls[key].title) =>
            /\ pulls[key].state # "closed"
            /\ pulls[key].state = "open" => key \in remoteBranches

\* the calls of this run for the edge e
CallsFor(e) == SelectSeq(calls, LAMBDA c : c.service = e[1] /\ c.dep = e[2])

NoConflict ==
    \A key \in DOMAIN pulls : pulls[key].state = "open" => pulls[key].mergeable # "conflicting"

Converged(e) ==
    /\ KeyOf(e) \in DOMAIN pulls
    /\ pulls[KeyOf(e)].state = "merged"
    /\ KeyOf(e) \notin remoteBranches

\* C17: from every state a partial or aborted run can leave for a mismatch,
\* repeated runs in which no call fails and no conflict is reported, and in which
\* the checks come to report passed, lead to the pull request being merged and
\* its branch deleted.
C17_Convergence ==
    \A e \in ForgeEdges : (e \in DOMAIN mismatches /\ NoConflict) ~> Converged(e)

\* a run that found the branch and its pull request merged it on passed checks
\* and deleted the branch
C17_Witness ==
    /\ Len(calls) >= 6
    /\ LET n == Len(calls)
       IN  /\ calls[n].op = "DeleteBranch" /\ calls[n].res = "ok"
           /\ calls[n - 1].op = "MergeMergeRequest"
           /\ calls[n - 2].op = "GetPullRequestChecks" /\ calls[n - 2].res = "passed"
           /\ calls[n - 4].op = "CheckBranchExists" /\ calls[n - 4].res = "true"
           /\ Converged(<<calls[n].service, calls[n].dep>>)
           /\ IsOwnTitle(pulls[KeyOf(<<calls[n].service, calls[n].dep>>)].title)

\* the pipeline of a mismatch whose branch is absent
RecreateSteps ==
    <<"CloneRepo", "CheckBranchExists", "UpdateGoDependency", "CommitAndPush",
      "CheckPullRequestExists", "CreateMergeRequest">>

RecreateResults == <<"ok", "false", "ok", "ok", "ok", "ok">>

\* C18: in the run after a deferral, the calls for the deferred mismatch are a
\* fresh clone, CheckBranchExists answering false, the bump, the push and,
\* no pull request being found, CreateMergeRequest; once the run is over the
\* branch exists again with a new open pull request.
C18_RecreateAfterDeferral ==
    \A e \in deferred :
        LET cs == CallsFor(e)
        IN  /\ e \in DOMAIN mismatches
            /\ Len(cs) <= Len(RecreateSteps)
            /\ \A i \in 1..Len(cs) :
                  /\ cs[i].op = RecreateSteps[i]
                  /\ cs[i].res = RecreateResults[i]
            /\ Len(cs) >= 5 => cs[5].pr = NoPR
            /\ pc = "done" =>
                  /\ Len(cs) = Len(RecreateSteps)
                  /\ runResult = "nil"
                  /\ KeyOf(e) \in remoteBranches
                  /\ IsOpen(KeyOf(e))
                  /\ pulls[KeyOf(e)] =
                        PullRequest("open", generateMRTitle(e[2], LatestOf(e[2])), "clean", "running")
                           \/ pulls[KeyOf(e)] =
                        PullRequest("open", generateMRTitle(e[2], LatestOf(e[2])), "clean", "passed")

\* the run after a deferral has pushed the branch again and created the pull
\* request
C18_Witness ==
    /\ pc = "done"
    /\ \E e \in deferred :
          /\ Len(CallsFor(e)) = Len(RecreateSteps)
          /\ CallsFor(e)[Len(RecreateSteps)].op = "CreateMergeRequest"
          /\ IsOpen(KeyOf(e))

---------------------------------------------------------------------------
(* Claims of the cancelled run *)

\* C19: when ctx is cancelled while a step of the run is in progress, Run
\* returns a non-nil error.
C19_Cancellation ==
    (cancelled /\ pc = "done") => runResult # "nil"

---------------------------------------------------------------------------
(* Claims of the two concurrent runs *)

\* C20: when both runs observed the branch absent, at most one CommitAndPush
\* succeeds; a run whose push failed is aborted with the error, without another
\* push.
C20_PushRace ==
    (\A p \in Runs : observed[p] = "false") =>
        /\ ~(\A p \in Runs : pushes[p] = "ok")
        /\ \A p \in Runs : pushes[p] = "err" => rpc[p] = "aborted"

---------------------------------------------------------------------------
(* Claims of the orchestrator: workspaces, retries, runs without mismatches *)

\* the position of the CloneRepo call of the pipeline that call i belongs to
CloneOf(i) == CHOOSE k \in CallIdx : calls[k].op = "CloneRepo" /\ SameEdge(k, i)

\* C21: CloneRepo is invoked exactly once for every processed mismatch, as the
\* first call of its pipeline, and the Dir given to CheckBranchExists and
\* UpdateGoDependency is the directory of that clone, the Dir given to
\* CommitAndPush the directory UpdateGoDependency made of it.
C21_FreshWorkspace ==
    \A i \in CallIdx :
        /\ (i = 1 \/ ~SameEdge(i, i - 1)) => calls[i].op = "CloneRepo"
        /\ calls[i].op = "CloneRepo" =>
              \A j \in CallIdx : (SameEdge(i, j) /\ calls[j].op = "CloneRepo") => j = i
        /\ calls[i].op \in {"CheckBranchExists", "UpdateGoDependency"} =>
              /\ \E k \in CallIdx : calls[k].op = "CloneRepo" /\ SameEdge(k, i) /\ k < i
              /\ calls[i].dir = FreshDir(CloneOf(i))
        /\ calls[i].op = "CommitAndPush" =>
              /\ \E k \in CallIdx : calls[k].op = "CloneRepo" /\ SameEdge(k, i) /\ k < i
              /\ calls[i].dir = Updated(FreshDir(CloneOf(i)))

\* a run pushed the bump of its second mismatch from the second clone after
\* the branch of the first one was found to exist
C21_Witness ==
    \E i, j \in CallIdx :
        /\ i < j
        /\ ~SameEdge(i, j)
        /\ calls[i].op = "CheckBranchExists" /\ calls[i].res = "true"
        /\ calls[i].dir = FreshDir(1)
        /\ calls[j].op = "CommitAndPush" /\ calls[j].res = "ok"
        /\ calls[j].dir = Updated(FreshDir(CloneOf(j)))
        /\ CloneOf(j) > i

---------------------------------------------------------------------------
(* More claims of the inconsistency checker *)

\* the version of edge e over which Check fails: the pinned one when it does
\* not parse, else the latest one
OffendingVersion(e) ==
    IF ~NewVersion(ActualOf(e)).ok THEN ActualOf(e) ELSE LatestVersionOf(e)

\* C26: when a version of an edge with a non-empty latest version does not
\* parse, Check returns no mismatch map and an error whose operands are the
\* offending version string, the dependency and the service of one such edge.
C26_CheckParseFailure ==
    (gpc = "checked" /\ UnparsableEdges # {}) =>
        /\ graphErr # ""
        /\ mismatches = <<>>
        /\ \E e \in UnparsableEdges :
              /\ Len(errArgs) = 3
              /\ errArgs[1] = OffendingVersion(e)
              /\ errArgs[2] = e[2]
              /\ errArgs[3] = e[1]

\* C22: within a run, no call is issued twice for the same mismatch: each of
\* the eleven operations is invoked at most once per mismatch, and a call that
\* failed is not followed by the same call for that mismatch.
C22_NoRetry ==
    \A i, j \in CallIdx :
        (i < j /\ SameEdge(i, j)) => calls[i].op # calls[j].op

\* a run went through the whole merge path of one mismatch and ended on the
\* failed push of another
C22_Witness ==
    /\ pc = "done"
    /\ runResult = "failed to fix modules"
    /\ Len(calls) = 10
    /\ calls[6].op = "DeleteBranch" /\ calls[5].op = "MergeMergeRequest"
    /\ calls[10].op = "CommitAndPush" /\ calls[10].res = "err"

\* C28: a CheckMergeConflicts call that fails does not abort the run, and no
\* DeletePullRequest follows it for the mismatch.
C28_ConflictCheckErrorContinues ==
    \A i \in CallIdx :
        (calls[i].op = "CheckMergeConflicts" /\ calls[i].res = "err") =>
            /\ \A j \in CallIdx : SameEdge(i, j) => calls[j].op # "DeletePullRequest"
            /\ ~(pc = "done" /\ runResult # "nil" /\ i = Len(calls))

---------------------------------------------------------------------------
(* Claims of Run as a whole *)

\* the stage call that comes k-th when nothing fails
ExpectedStage(k) ==
    IF k <= Len(repositories) THEN "Fetch"
    ELSE IF k = Len(repositories) + 1 THEN "BuildGraph"
    ELSE IF k = Len(repositories) + 2 THEN "DetectAndSetCurrentVersions"
    ELSE "Check"

\* the error Run returns when the stage call c failed
ErrorOfStage(c) ==
    CASE c.op = "Fetch" -> c.res
      [] c.op = "BuildGraph" -> "failed to build dependency graph"
      [] c.op = "DetectAndSetCurrentVersions" -> "failed to detect versions"
      [] c.op = "Check" -> "failed to check for inconsistencies"

\* C25: Run fetches every repository in the configured order, then builds the
\* graph, detects the versions, checks, and only then orchestrates; a failed
\* stage is the last one, Run returns its error and no collaborator call of the
\* orchestration is made; with no repository configured Run returns "no
\* repositories configured" before any stage.
C25_StageFailFast ==
    /\ Len(stages) <= Len(repositories) + 3
    /\ \A k \in 1..Len(stages) :
          /\ stages[k].op = ExpectedStage(k)
          /\ stages[k].op = "Fetch" => stages[k].arg = repositories[k]
          /\ k < Len(stages) => stages[k].res = "ok"
    /\ repositories = <<>> =>
          /\ stages = <<>>
          /\ calls = <<>>
          /\ gpc \in {"Run", "returned"}
          /\ gpc = "returned" => (pc = "done" /\ runResult = "no repositories configured")
    /\ (stages # <<>> /\ stages[Len(stages)].res # "ok") =>
          /\ gpc = "returned"
          /\ pc = "done"
          /\ runResult = ErrorOfStage(stages[Len(stages)])
          /\ calls = <<>>
    /\ (calls # <<>> \/ pc \notin {"idle", "done"}) =>
          /\ Len(stages) = Len(repositories) + 3
          /\ stages[Len(stages)].res = "ok"

\* Run returned the error of the tag listing after three fetches and the graph
\* build, without a call of the orchestration
C25_Witness ==
    /\ pc = "done"
    /\ Len(stages) = 5
    /\ stages[5] = Stage("DetectAndSetCurrentVersions", ModulePaths, "err")
    /\ runResult = "failed to detect versions"
    /\ calls = <<>>

\* no edge of the graph lags: every dependency with a latest version is pinned
\* at that version or above
NoEdgeMismatched ==
    \A s \in DOMAIN graph, d \in DOMAIN graph :
        (d \in DOMAIN heap[graph[s]].Dependencies /\ heap[graph[d]].LatestVersion # <<>>) =>
            SemverRank(PinnedBy(s, d)) >= SemverRank(heap[graph[d]].LatestVersion)

\* C24: when Check has returned for a graph without a mismatched edge, no
\* workspace call and no pull-request or branch call is made, and Run returns
\* nil.
C24_NoWorkWithoutMismatches ==
    (gpc = "checked" /\ NoEdgeMismatched) =>
        /\ calls = <<>>
        /\ pc \in {"Run", "done"}
        /\ pc = "done" => runResult = "nil"

\* Run returned nil without a call for a graph in which a dependency with a
\* latest version is pinned at that version
C24_Witness ==
    /\ gpc = "checked"
    /\ pc = "done"
    /\ runResult = "nil"
    /\ calls = <<>>
    /\ PinnedBy(pA, pB) = v1_2_0
    /\ heap[graph[pB]].LatestVersion = v1_2_0
    /\ NoEdgeMismatched

---------------------------------------------------------------------------
(* Claims of generateBranchName *)

\* the part of a branch name between the prefix and the "-" before the version
SanitizedPart(r) == SubSeq(r, 2, Len(r) - Len(fnArgs.targetVersion) - 1)

Replaced == {"/", ".", " "}

\* C23: every call with the same module path and target version returns the
\* same string, of the form depsync/update-<sanitized path>-<version>; the
\* sanitized path holds no '/', '.' or space, only '-' in their place, and the
\* other characters of the module path in their order.
C23_BranchNameDeterminism ==
    /\ \A i, j \in 1..Len(fnResults) : fnResults[i] = fnResults[j]
    /\ \A i \in 1..Len(fnResults) :
          LET r == fnResults[i]
              v == fnArgs.targetVersion
          IN  /\ Len(r) >= Len(v) + 2
              /\ r[1] = "depsync/update-"
              /\ r[Len(r) - Len(v)] = "-"
              /\ SubSeq(r, Len(r) - Len(v) + 1, Len(r)) = v
              /\ \A k \in 1..Len(SanitizedPart(r)) : SanitizedPart(r)[k] \notin Replaced
              /\ SelectSeq(SanitizedPart(r), LAMBDA c : c # "-")
                    = SelectSeq(fnArgs.modulePath, LAMBDA c : c \notin Replaced)
              /\ Len(SelectSeq(SanitizedPart(r), LAMBDA c : c = "-"))
                    <= Len(SelectSeq(fnArgs.modulePath, LAMBDA c : c \in Replaced))

\* two calls for the path "/a.a " and v1.2.0 returned depsync/update-a-a-v1.2.0
C23_Witness ==
    /\ fnArgs = [modulePath |-> <<"/", "a", ".", "a", " ">>, targetVersion |-> v1_2_0]
    /\ fnResults = << <<"depsync/update-", "a", "-", "a", "-">> \o v1_2_0,
                        <<"depsync/update-", "a", "-", "a", "-">> \o v1_2_0 >>

\* C30: the sanitized part of a branch name holds no two adjacent '-'.
C30_NoConsecutiveHyphens ==
    \A i \in 1..Len(fnResults) :
        LET mid == SanitizedPart(fnResults[i])
        IN  \A k \in 1..(Len(mid) - 1) : ~(mid[k] = "-" /\ mid[k + 1] = "-")

\* a module path as go.mod files hold them: elements that are not empty,
\* with single separators between them
WellFormedPath(chars) ==
    /\ chars # <<>>
    /\ chars[1] = "a"
    /\ chars[Len(chars)] = "a"
    /\ \A i \in 1..(Len(chars) - 1) : chars[i] = "a" \/ chars[i + 1] = "a"

\* C38: within one consumer repository, two distinct pairs of dependency
\* module path and target version never produce the same branch name (stated
\* for well-formed module paths)
C38_NoCollision ==
    (/\ Len(fnResults) = 2
     /\ WellFormedPath(fnArgs[1].modulePath)
     /\ WellFormedPath(fnArgs[2].modulePath))
    => fnResults[1] # fnResults[2]

---------------------------------------------------------------------------
(* Claims of GetPullRequestChecks *)

\* a conclusion with which a finished check run has passed: success, or one
\* of the two the forge itself counts as not failing
PassedConclusions == {"success", "neutral", "skipped"}

\* C27: the check status of a pull request is passed only when every one of
\* its check runs has completed and passed: a check run that has not
\* completed, or whose conclusion is not a success, never yields passed
C27_CheckStatusPassed ==
    \A i \in 1..Len(fnResults) :
        fnResults[i].Status = "passed"
        => \A k \in 1..Len(fnArgs.CheckRuns) :
              /\ fnArgs.CheckRuns[k].Status = "completed"
              /\ fnArgs.CheckRuns[k].Conclusion \in PassedConclusions

FailedConclusions == {"failure", "cancelled", "timed_out"}

\* C33: with no check runs the status is running, and running is never merged;
\* a queued or in-progress check run makes the status running even next to a
\* failed one; failed is reported only when no check run is queued or in
\* progress and one concluded failure, cancelled or timed_out
C33_AggregationOrder ==
    /\ AfterGetPullRequestChecks("running") # "MergeMergeRequest"
    /\ \A i \in 1..Len(fnResults) :
          LET runs == fnArgs.CheckRuns
              res  == fnResults[i]
              unfinished == \E k \in 1..Len(runs) : runs[k].Status \in {"queued", "in_progress"}
          IN  res.err = ""
              => /\ Len(runs) = 0 => res.Status = "running"
                 /\ unfinished => res.Status = "running"
                 /\ res.Status = "failed"
                    => /\ ~unfinished
                       /\ \E k \in 1..Len(runs) : runs[k].Conclusion \in FailedConclusions

\* a failed check run followed by a queued one gave running
C33_Witness ==
    /\ fnArgs.CheckRuns = <<[Status |-> "completed", Conclusion |-> "failure"],
                            [Status |-> "queued", Conclusion |-> NilConclusion]>>
    /\ fnResults = <<[Status |-> "running", err |-> ""]>>

---------------------------------------------------------------------------
(* Claims of the graph as Run hands it on *)

\* the node at address a, its LatestVersion aside
SansLatestVersion(h, a) == [h[a] EXCEPT !.LatestVersion = <<>>]

\* C31: DetectAndSetCurrentVersions changes only LatestVersion fields of nodes,
\* never the key set, the target of an edge or its CurrentVersion; it has
\* finished when Check starts; Check and the orchestrator leave the graph as
\* it is
C31_GraphFrame ==
    [][/\ graph' = graph
       /\ DOMAIN heap' = DOMAIN heap
       /\ \A a \in DOMAIN heap : SansLatestVersion(heap', a) = SansLatestVersion(heap, a)
       /\ gpc # "DetectAndSetCurrentVersions"
          => /\ heap' = heap
             /\ gpc' # "DetectAndSetCurrentVersions"
       /\ gpc' \in {"Check", "checked"} => graphErr = ""]_vars

\* the detector gave b a latest version, Check found a's pin below it and the
\* orchestrator has worked on the mismatch
C31_Witness ==
    /\ gpc = "checked"
    /\ pc = "done"
    /\ {pA, pB} \subseteq DOMAIN graph
    /\ heap[graph[pB]].LatestVersion = v1_10_0
    /\ heap[graph[pA]].Dependencies[pB].CurrentVersion = v1_0_0
    /\ Len(calls) > 0

---------------------------------------------------------------------------
(* Claims of the orchestrator: creation and deletion, and the parameters of
   the calls *)

\* call j established the branch of the pipeline: the branch check found it or
\* the push succeeded
EstablishesBranch(j) ==
    \/ calls[j].op = "CheckBranchExists" /\ calls[j].res = "true"
    \/ calls[j].op = "CommitAndPush" /\ calls[j].res = "ok"

FoundPR(i, k, pr, br) ==
    /\ calls[i].op = "CheckPullRequestExists"
    /\ calls[i].res = "ok"
    /\ SameEdge(i, k)
    /\ calls[i].pr = pr
    /\ calls[i].branch = br

\* C35: DeleteBranch is invoked only right after a successful DeletePullRequest
\* (which follows a reported conflict) or a successful MergeMergeRequest on the
\* pull request found on that branch, and at most once per mismatch in a run;
\* after a failed merge or a failed close no DeleteBranch is invoked for the
\* mismatch, so the branch of an open, unmerged pull request without a reported
\* conflict is never deleted
C35_DeleteBranchOnlyAfter ==
    /\ \A i \in CallIdx :
          calls[i].op = "DeleteBranch" =>
              /\ i > 2
              /\ SameEdge(i - 1, i)
              /\ calls[i - 1].op \in {"DeletePullRequest", "MergeMergeRequest"}
              /\ calls[i - 1].res = "ok"
              /\ calls[i - 1].repo = calls[i].repo
              /\ \E k \in 1..(i - 2) : FoundPR(k, i, calls[i - 1].pr, calls[i].branch)
              /\ calls[i - 1].op = "DeletePullRequest" =>
                    /\ calls[i - 2].op = "CheckMergeConflicts"
                    /\ calls[i - 2].res = "true"
                    /\ calls[i - 2].pr = calls[i - 1].pr
                    /\ SameEdge(i - 2, i)
              /\ calls[i - 1].op = "MergeMergeRequest" =>
                    /\ calls[i - 2].op = "GetPullRequestChecks"
                    /\ calls[i - 2].res = "passed"
                    /\ calls[i - 2].pr = calls[i - 1].pr
                    /\ SameEdge(i - 2, i)
    /\ \A i, j \in CallIdx :
          (calls[i].op = "DeleteBranch" /\ calls[j].op = "DeleteBranch" /\ SameEdge(i, j)) => i = j
    /\ \A i, j \in CallIdx :
          (calls[i].op \in {"DeletePullRequest", "MergeMergeRequest"} /\ calls[i].res = "err"
              /\ SameEdge(i, j))
          => calls[j].op # "DeleteBranch"
    /\ pc \in {"DeleteBranchOfConflictedPR", "DeleteBranchAfterMerge"} =>
          /\ calls # <<>>
          /\ calls[Len(calls)].res = "ok"
          /\ calls[Len(calls)].op =
                (IF pc = "DeleteBranchAfterMerge" THEN "MergeMergeRequest" ELSE "DeletePullRequest")

\* in one run a merge failed and left its branch, and the branch of another
\* mismatch was deleted after its merge
C35_Witness ==
    /\ pc = "done"
    /\ \E i, j \in CallIdx :
          /\ calls[i].op = "MergeMergeRequest" /\ calls[i].res = "err"
          /\ j > 1
          /\ calls[j].op = "DeleteBranch" /\ calls[j].res = "ok"
          /\ calls[j - 1].op = "MergeMergeRequest"
          /\ \A k \in CallIdx : SameEdge(i, k) => calls[k].op # "DeleteBranch"

\* the calls that take the name of the update branch
NamesBranch ==
    {"CheckBranchExists", "CommitAndPush", "CheckPullRequestExists", "CreateMergeRequest",
     "DeleteBranch"}

\* C36: for a mismatch (S, D, Latest), every call of its pipeline targets the
\* repository derived from the consumer S, never the one of D; the calls that
\* name the update name D as module path and Latest as target version; and
\* CheckBranchExists, CommitAndPush, CheckPullRequestExists, CreateMergeRequest
\* and DeleteBranch all use the branch name generateBranchName(D, Latest)
C36_ParameterConsistency ==
    \A i \in CallIdx :
        LET S == calls[i].service
            D == calls[i].dep
        IN  /\ <<S, D>> \in DOMAIN mismatches
            /\ calls[i].repo = <<"https://", S>>
            /\ calls[i].repo # <<"https://", D>>
            /\ calls[i].op \in NamesUpdate =>
                  /\ calls[i].modulePath = D
                  /\ calls[i].targetVersion = mismatches[<<S, D>>].Latest
            /\ calls[i].op \in NamesBranch =>
                  calls[i].branch = generateBranchName(D, mismatches[<<S, D>>].Latest)
            /\ \A j \in CallIdx :
                  (SameEdge(i, j) /\ calls[i].op \in NamesBranch /\ calls[j].op \in NamesBranch)
                  => calls[i].branch = calls[j].branch

\* a run pushed and opened the update of c in b's repository and merged and
\* deleted the branch of another update
C36_Witness ==
    /\ pc = "done"
    /\ \E i, j, k \in CallIdx :
          /\ calls[i].op = "CommitAndPush" /\ calls[i].service = pB /\ calls[i].dep = pC
          /\ calls[i].repo = <<"https://", pB>> /\ calls[i].targetVersion = v1_10_0
          /\ calls[j].op = "CreateMergeRequest" /\ SameEdge(i, j) /\ calls[j].res = "ok"
          /\ calls[k].op = "DeleteBranch" /\ ~SameEdge(i, k)

---------------------------------------------------------------------------
(* Claims of Check over the orders of its loops *)

\* the edges whose dependency has a latest version
EdgesWithLatest ==
    {e \in (DOMAIN graph) \X (DOMAIN graph) :
        /\ e[2] \in DOMAIN heap[graph[e[1]]].Dependencies
        /\ heap[graph[e[2]]].LatestVersion # <<>>}

\* C37: whether Check returns an error does not depend on the order in which
\* the maps are walked: it returns one exactly when some edge whose dependency
\* has a non-empty LatestVersion pins a version that does not parse or has a
\* latest version that does not parse; an unparsable pin on an edge whose
\* dependency has no LatestVersion is skipped and is no error
C37_ErrorOrderIndependent ==
    LET bad == \E e \in EdgesWithLatest :
                  \/ ~NewVersion(PinnedBy(e[1], e[2])).ok
                  \/ ~NewVersion(heap[graph[e[2]]].LatestVersion).ok
    IN  /\ \A i \in 1..Len(fnResults) : (fnResults[i].err # "") <=> bad
        /\ \A i, j \in 1..Len(fnResults) :
              /\ (fnResults[i].err = "") = (fnResults[j].err = "")
              /\ fnResults[i].err = "" => fnResults[i].result = fnResults[j].result

\* two calls on one graph failed at different edges with different errors, and
\* an unparsable pin on a third edge, whose dependency has no latest version,
\* is not what either of them failed on
C37_Witness ==
    /\ Len(fnResults) = 2
    /\ fnResults[1].err = "failed to parse actual version"
    /\ fnResults[2].err = "failed to parse latest version"
    /\ fnResults[1].at # fnResults[2].at
    /\ PinnedBy(pA, pB) = notAVersion
    /\ heap[graph[pB]].LatestVersion = <<>>

=============================================================================
